---- MODULE Spec2Model ----
(***************************************************************************)
(* gpgenie: the generate -> score -> persist pipeline of                   *)
(* keyService.GenerateKeys and the fingerprint scoring engine.             *)
(*                                                                         *)
(* Two variants of the key service are in the repository: the plain one    *)
(* (internal/key/service/key_service.go) and the pooled one                *)
(* (unnamed/part_021).  The variable "pooled" says which one a run models. *)
(***************************************************************************)
EXTENDS Integers, Sequences, FiniteSets, TLC

(***************************************************************************)
(* Configuration of a run (config.KeyGenerationConfig) and model bounds.   *)
(***************************************************************************)
NumGeneratorWorkers == 1
NumScorerWorkers == 1
TotalKeys == 2
MaxBatchSize == 2
MinScore == 100
MaxLettersCount == 9
\* channel capacity per worker, scaled down from 1000 / 20 (generationJobs)
\* and 10000 / 20 (scoredKeyInfos) so that a full channel is reachable
JobsPerGenerator == 1
KeyInfosPerScorer == 1

(***************************************************************************)
(* Scoring engine: domain.CalculateScores.  A string is a sequence of      *)
(* byte codes 0..255.                                                      *)
(***************************************************************************)
maxSeqLength == 16
magicScore == 0 - 100
minSeqLength == 3

ISqrt(n) == CHOOSE k \in 0..n : k * k <= n /\ (k + 1) * (k + 1) > n

\* faulty variant: the power is rounded to the nearest integer, not truncated
PowThreeHalvesRounded(n) == (ISqrt(4 * n * n * n) + 1) \div 2

\* int(math.Pow(float64(n), 1.5))
PowThreeHalves(n) == ISqrt(n * n * n)

charToValueMap ==
  [c \in 0..255 |->
     IF c \in 48..57 THEN c - 48
     ELSE IF c \in 65..70 THEN c - 65 + 10
     ELSE IF c \in 97..102 THEN c - 97 + 10
     ELSE 0 - 1]

\* faulty variant: the entries are kept in a byte
repeatScoreMapByte ==
  [i \in 0..31 |->
     IF i >= minSeqLength /\ i <= maxSeqLength
     THEN (PowThreeHalves(i) * 16) % 256 ELSE 0]

repeatScoreMap ==
  [i \in 0..31 |->
     IF i >= minSeqLength /\ i <= maxSeqLength THEN PowThreeHalves(i) * 16 ELSE 0]

sequenceScoreMap ==
  [i \in 0..31 |->
     IF i >= minSeqLength /\ i <= maxSeqLength THEN PowThreeHalves(i - 1) * 16 ELSE 0]

Max2(a, b) == IF a > b THEN a ELSE b

\* faulty variant: the two characters are looked for in the other order
ContainsMagicReversed(line) ==
  \E i \in 1..(Len(line) - 1) : line[i] = 57 /\ line[i + 1] = 52

\* strings.Contains(line, "49")
ContainsMagic(line) ==
  \E i \in 1..(Len(line) - 1) : line[i] = 52 /\ line[i + 1] = 57

\* faulty variant: the first character is counted but its bit is not set in
\* uniqueMask
ScanInitForgetsMask(line) ==
  LET val == charToValueMap[line[1]] IN
  [ uniqueMask |-> {},
    uniqueCount |-> IF val >= 0 THEN 1 ELSE 0,
    prevVal |-> IF val >= 0 THEN val ELSE 0 - 1,
    prevChar |-> IF val >= 0 THEN line[1] ELSE 0,
    repeatLen |-> 1, increasingLen |-> 1, decreasingLen |-> 1,
    maxRepeatScore |-> 0, maxIncreasingScore |-> 0, maxDecreasingScore |-> 0 ]

\* state of the scan after the first character (lines 171-197)
ScanInit(line) ==
  LET val == charToValueMap[line[1]] IN
  [ uniqueMask |-> IF val >= 0 THEN {val} ELSE {},
    uniqueCount |-> IF val >= 0 THEN 1 ELSE 0,
    prevVal |-> IF val >= 0 THEN val ELSE 0 - 1,
    prevChar |-> IF val >= 0 THEN line[1] ELSE 0,
    repeatLen |-> 1, increasingLen |-> 1, decreasingLen |-> 1,
    maxRepeatScore |-> 0, maxIncreasingScore |-> 0, maxDecreasingScore |-> 0 ]

\* one iteration of the main loop (lines 200-254)
ScanStep(st, current) ==
  LET currentVal == charToValueMap[current]
      diff == currentVal - st.prevVal
      isNew == currentVal \notin st.uniqueMask
      sameChar == current = st.prevChar
      up == diff = 1 \/ (st.prevVal = 15 /\ currentVal = 0)
      down == diff = 0 - 1 \/ (st.prevVal = 0 /\ currentVal = 15)
  IN
  IF currentVal < 0 THEN st
  ELSE
    [ uniqueMask |-> st.uniqueMask \cup {currentVal},
      uniqueCount |-> IF isNew THEN st.uniqueCount + 1 ELSE st.uniqueCount,
      prevVal |-> currentVal,
      prevChar |-> current,
      repeatLen |-> IF sameChar THEN st.repeatLen + 1 ELSE 1,
      maxRepeatScore |->
        IF ~sameChar /\ st.repeatLen >= minSeqLength
        THEN Max2(st.maxRepeatScore, repeatScoreMap[st.repeatLen])
        ELSE st.maxRepeatScore,
      increasingLen |-> IF up THEN st.increasingLen + 1 ELSE 1,
      decreasingLen |-> IF up THEN 1 ELSE IF down THEN st.decreasingLen + 1 ELSE 1,
      maxIncreasingScore |->
        IF ~up /\ ~down /\ st.increasingLen > minSeqLength
        THEN Max2(st.maxIncreasingScore, sequenceScoreMap[st.increasingLen])
        ELSE st.maxIncreasingScore,
      maxDecreasingScore |->
        IF ~up /\ ~down /\ st.decreasingLen > minSeqLength
        THEN Max2(st.maxDecreasingScore, sequenceScoreMap[st.decreasingLen])
        ELSE st.maxDecreasingScore ]

RECURSIVE Scan(_, _, _)
Scan(line, i, st) ==
  IF i > Len(line) THEN st
  ELSE CHOOSE final \in { Scan(line, i + 1, next) :
                            next \in { ScanStep(st, line[i]) } } : TRUE

boolToInt(b) == IF b THEN 1 ELSE 0

ZeroScores ==
  [ RepeatLetterScore |-> 0, IncreasingLetterScore |-> 0,
    DecreasingLetterScore |-> 0, MagicLetterScore |-> 0,
    UniqueLettersCount |-> 0 ]

\* faulty variant: the runs still open at the end of the string are not scored
CalculateScoresNoTail(line) ==
  IF Len(line) = 0 THEN ZeroScores
  ELSE
    LET st == Scan(line, 2, ScanInit(line)) IN
    [ RepeatLetterScore |-> st.maxRepeatScore,
      IncreasingLetterScore |-> st.maxIncreasingScore,
      DecreasingLetterScore |-> st.maxDecreasingScore,
      MagicLetterScore |-> boolToInt(ContainsMagic(line)) * magicScore,
      UniqueLettersCount |-> st.uniqueCount ]

CalculateScores(line) ==
  IF Len(line) = 0 THEN ZeroScores
  ELSE
    LET st == Scan(line, 2, ScanInit(line)) IN
    [ RepeatLetterScore |->
        IF st.repeatLen >= minSeqLength
        THEN Max2(st.maxRepeatScore, repeatScoreMap[st.repeatLen])
        ELSE st.maxRepeatScore,
      IncreasingLetterScore |->
        IF st.increasingLen > minSeqLength
        THEN Max2(st.maxIncreasingScore, sequenceScoreMap[st.increasingLen])
        ELSE st.maxIncreasingScore,
      DecreasingLetterScore |->
        IF st.decreasingLen > minSeqLength
        THEN Max2(st.maxDecreasingScore, sequenceScoreMap[st.decreasingLen])
        ELSE st.maxDecreasingScore,
      MagicLetterScore |-> boolToInt(ContainsMagic(line)) * magicScore,
      UniqueLettersCount |-> st.uniqueCount ]

(***************************************************************************)
(* The basic variant of the scoring engine (unnamed/part_015, third file): *)
(* three separate run trackers that compare each byte with the byte before *)
(* it, score tables of 17 entries, no test of the length.                  *)
(***************************************************************************)
\* charToValue: the value of a hex digit, -1 when ok is false
charToValue(c) == IF c >= 128 THEN 0 - 1 ELSE charToValueMap[c]

isIncreasing(a, b) ==
  /\ charToValue(a) >= 0
  /\ charToValue(b) >= 0
  /\ charToValue(b) = (charToValue(a) + 1) % 16

isDecreasing(a, b) ==
  /\ charToValue(a) >= 0
  /\ charToValue(b) >= 0
  /\ charToValue(b) = (charToValue(a) - 1 + 16) % 16

\* initScoreMaps
repeatScoreMapBasic ==
  [x \in 0..16 |-> IF x >= 3 THEN PowThreeHalves(x) * 16 ELSE 0]

sequenceScoreMapBasic ==
  [x \in 0..16 |-> IF x >= 4 THEN PowThreeHalves(x - 1) * 16 ELSE 0]

\* locals after the first character (part_015:597-612); line is not empty
ScanInitBasic(line) ==
  LET val == charToValue(line[1]) IN
  [ uniqueLetters |-> IF val >= 0 THEN {val} ELSE {},
    uniqueCount |-> IF val >= 0 THEN 1 ELSE 0,
    repeatLen |-> 1, increasingLen |-> 1, decreasingLen |-> 1,
    maxRepeatScore |-> 0, maxIncreasingScore |-> 0, maxDecreasingScore |-> 0 ]

\* one iteration of the loop (part_015:615-662)
ScanStepBasic(st, prev, current) ==
  LET val == charToValue(current)
      isNew == val >= 0 /\ val \notin st.uniqueLetters
  IN
  [ uniqueLetters |->
      IF isNew THEN st.uniqueLetters \cup {val} ELSE st.uniqueLetters,
    uniqueCount |-> IF isNew THEN st.uniqueCount + 1 ELSE st.uniqueCount,
    repeatLen |-> IF current = prev THEN st.repeatLen + 1 ELSE 1,
    maxRepeatScore |->
      IF current /= prev /\ st.repeatLen >= 3
      THEN Max2(st.maxRepeatScore, repeatScoreMapBasic[st.repeatLen])
      ELSE st.maxRepeatScore,
    increasingLen |->
      IF isIncreasing(prev, current) THEN st.increasingLen + 1 ELSE 1,
    maxIncreasingScore |->
      IF ~isIncreasing(prev, current) /\ st.increasingLen > 3
      THEN Max2(st.maxIncreasingScore, sequenceScoreMapBasic[st.increasingLen])
      ELSE st.maxIncreasingScore,
    decreasingLen |->
      IF isDecreasing(prev, current) THEN st.decreasingLen + 1 ELSE 1,
    maxDecreasingScore |->
      IF ~isDecreasing(prev, current) /\ st.decreasingLen > 3
      THEN Max2(st.maxDecreasingScore, sequenceScoreMapBasic[st.decreasingLen])
      ELSE st.maxDecreasingScore ]

RECURSIVE ScanBasic(_, _, _)
ScanBasic(line, i, st) ==
  IF i > Len(line) THEN st
  ELSE CHOOSE final \in { ScanBasic(line, i + 1, next) :
                            next \in { ScanStepBasic(st, line[i - 1], line[i]) } } :
         TRUE

\* line[0] of the empty string: index out of range, a runtime panic
PanicsBasic(line) == Len(line) = 0

\* the Scores returned for a line that is not empty
CalculateScoresBasic(line) ==
  LET st == ScanBasic(line, 2, ScanInitBasic(line)) IN
  [ RepeatLetterScore |->
      IF st.repeatLen >= 3
      THEN Max2(st.maxRepeatScore, repeatScoreMapBasic[st.repeatLen])
      ELSE st.maxRepeatScore,
    IncreasingLetterScore |->
      IF st.increasingLen > 3
      THEN Max2(st.maxIncreasingScore, sequenceScoreMapBasic[st.increasingLen])
      ELSE st.maxIncreasingScore,
    DecreasingLetterScore |->
      IF st.decreasingLen > 3
      THEN Max2(st.maxDecreasingScore, sequenceScoreMapBasic[st.decreasingLen])
      ELSE st.maxDecreasingScore,
    MagicLetterScore |-> IF ContainsMagic(line) THEN 0 - 100 ELSE 0,
    UniqueLettersCount |-> st.uniqueCount ]

\* the two variants of the engine a direct call can reach
Variants == {"optimized", "basic"}

(***************************************************************************)
(* Inputs of direct calls of CalculateScores.                              *)
(***************************************************************************)
MaxLineLen == 3

\* the upper-case hex digit of a value 0..15
HexUpper(v) == IF v < 10 THEN 48 + v ELSE 65 + v - 10

\* the upper-case hex string with the given digit values
Hex(values) == [i \in DOMAIN values |-> HexUpper(values[i])]

Expected(repeat, inc, dec, magic, unique) ==
  [ RepeatLetterScore |-> repeat, IncreasingLetterScore |-> inc,
    DecreasingLetterScore |-> dec, MagicLetterScore |-> magic,
    UniqueLettersCount |-> unique ]

\* the table of TestCalculateScores
TestVectors ==
  << \* "8888888888888888"
     [ input |-> Hex([i \in 1..16 |-> 8]),
       expected |-> Expected(1024, 0, 0, 0, 1) ],
     \* "0123456789ABCDEF"
     [ input |-> Hex([i \in 1..16 |-> i - 1]),
       expected |-> Expected(0, 928, 0, 0, 16) ],
     \* "FEDCBA9876543210"
     [ input |-> Hex([i \in 1..16 |-> 16 - i]),
       expected |-> Expected(0, 0, 928, 0, 16) ],
     \* "0123456666FEDCBA"
     [ input |-> Hex(<<0,1,2,3,4,5,6,6,6,6,15,14,13,12,11,10>>),
       expected |-> Expected(128, 224, 176, 0, 13) ],
     \* "1929394959697989"
     [ input |-> Hex(<<1,9,2,9,3,9,4,9,5,9,6,9,7,9,8,9>>),
       expected |-> Expected(0, 0, 0, 0 - 100, 9) ],
     \* "FCEC7777789ABCDF"
     [ input |-> Hex(<<15,12,14,12,7,7,7,7,7,8,9,10,11,12,13,15>>),
       expected |-> Expected(176, 224, 0, 0, 9) ],
     \* "42E42EE22E4EE4E2"
     [ input |-> Hex(<<4,2,14,4,2,14,14,2,2,14,4,14,14,4,14,2>>),
       expected |-> Expected(0, 0, 0, 0, 3) ] >>

\* bytes short inputs are made of: "0" "1" "4" "9" "F" "f" "!"
SampleBytes == {48, 49, 52, 57, 70, 102, 33}

ShortLines == UNION { [1..n -> SampleBytes] : n \in 0..MaxLineLen }

\* the byte of a character
AsciiOf ==
  [ c \in {"!"} |-> 33 ]
    @@ ("0" :> 48) @@ ("1" :> 49) @@ ("2" :> 50) @@ ("3" :> 51) @@ ("4" :> 52)
    @@ ("5" :> 53) @@ ("6" :> 54) @@ ("7" :> 55) @@ ("8" :> 56) @@ ("9" :> 57)
    @@ ("A" :> 65) @@ ("B" :> 66) @@ ("C" :> 67) @@ ("D" :> 68) @@ ("E" :> 69)
    @@ ("F" :> 70)
    @@ ("a" :> 97) @@ ("b" :> 98) @@ ("c" :> 99) @@ ("d" :> 100)
    @@ ("e" :> 101) @@ ("f" :> 102)

\* the string with the given characters
Line(chars) == [i \in DOMAIN chars |-> AsciiOf[chars[i]]]

\* inputs of the test tables of calculator_test.go and strings like them
ExampleLines ==
  { Line(<<"A">>),
    Line(<<"A","A","A","A">>),
    Line(<<"0","1","2","3","4","5","6">>),
    Line(<<"F","E","D","C","B","A">>),
    Line(<<"4","9","A","B","C","D">>),
    Line(<<"a","A","b","B","c","C">>),
    Line(<<"a","A","a","A","1","2","3">>),
    Line(<<"F","0","1","2","3">>),
    Line(<<"f","0","1","2","3">>),
    Line(<<"3","2","1","0","F","E">>),
    Line(<<"3","2","1","0","f","e">>),
    Line(<<"F","E","D","F","0","1","2">>),
    Line(<<"4","3","2","1","0","1","2","3">>),
    Line(<<"0","1","2","3","4","3","2","1">>),
    Line(<<"A","A","!","A">>),
    Line(<<"0","1","2","!","3">>),
    Line(<<"3","2","1","!","0">>),
    Line(<<"!","0","1","2">>),
    Line(<<"!","!","0","1","2","3">>),
    Line(<<"A","B","C","!","!","!","1","2","3">>),
    Line(<<"B","5","4","3","2","6","0","0","0","0","0","0","1","2","3","4">>),
    Line(<<"1","2","3","4","B","5","4","3","2","1","0","0","0","0","0","0">>) }

\* every string of the digits "0".."3" with 4..MaxRunLen characters
MaxRunLen == 5

DigitLines == UNION { [1..n -> 48..51] : n \in 4..MaxRunLen }

\* strings of 16 hex digits of either case, made of four blocks
Blocks ==
  { Line(<<"0","1","2","3">>), Line(<<"a","A","f","F">>),
    Line(<<"A","b","C","d">>), Line(<<"4","9","4","9">>) }

SixteenLines ==
  { b[1] \o b[2] \o b[3] \o b[4] : b \in [1..4 -> Blocks] }

\* the strings CalculateScores is called with directly
ScoringInputs ==
  { TestVectors[t].input : t \in DOMAIN TestVectors }
    \cup ShortLines \cup ExampleLines \cup DigitLines \cup SixteenLines

(***************************************************************************)
(* Candidates.  The crypto primitive returns an entity with an arbitrary   *)
(* fingerprint; the model draws the last sixteen hex characters from a few *)
(* samples and makes the fingerprint unique by a leading character.        *)
(***************************************************************************)
HexLower(v) == IF v < 10 THEN 48 + v ELSE 97 + v - 10

SampleTails ==
  << [i \in 1..16 |-> HexLower(i - 1)],                      \* 0123456789abcdef
     <<49,57,50,57,51,57,52,57,53,57,54,57,55,57,56,57>>,    \* 1929394959697989
     <<49,51,53,55,57,50,52,54,56,48,97,99,101,98,100,102>> >> \* 1357924680acebdf

Kinds == DOMAIN SampleTails

\* fmt.Sprintf("%x", entity.PrimaryKey.Fingerprint)
Fingerprint(entity) == <<HexLower(entity.id)>> \o SampleTails[entity.kind]

\* fingerprint[len(fingerprint)-16:]
LastSixteen(fingerprint) ==
  SubSeq(fingerprint, Len(fingerprint) - 16 + 1, Len(fingerprint))

TotalScore(scores) ==
  scores.RepeatLetterScore + scores.IncreasingLetterScore
    + scores.DecreasingLetterScore + scores.MagicLetterScore

\* faulty variant: && in place of || in the plain skip test
RejectedPlainBothTests(totalScore, uniqueLettersCount) ==
  totalScore <= MinScore /\ uniqueLettersCount < MaxLettersCount

\* the scorer's "skip" test, plain variant (key_service.go:207)
RejectedPlain(totalScore, uniqueLettersCount) ==
  totalScore <= MinScore \/ uniqueLettersCount < MaxLettersCount

\* the scorer's "skip" test, pooled variant (part_021:229)
RejectedPooled(totalScore, uniqueLettersCount) ==
  totalScore <= MinScore /\ uniqueLettersCount > MaxLettersCount

Rejected(isPooled, totalScore, uniqueLettersCount) ==
  IF isPooled THEN RejectedPooled(totalScore, uniqueLettersCount)
  ELSE RejectedPlain(totalScore, uniqueLettersCount)

\* the KeyInfo a scorer builds for an entity (key_service.go:217-227)
NewKeyInfo(entity) ==
  LET fingerprint == Fingerprint(entity)
      scores == CalculateScores(LastSixteen(fingerprint))
  IN [ Fingerprint |-> fingerprint,
       PublicKey |-> entity.id,
       PrivateKey |-> entity.id,
       RepeatLetterScore |-> scores.RepeatLetterScore,
       IncreasingLetterScore |-> scores.IncreasingLetterScore,
       DecreasingLetterScore |-> scores.DecreasingLetterScore,
       MagicLetterScore |-> scores.MagicLetterScore,
       Score |-> TotalScore(scores),
       UniqueLettersCount |-> scores.UniqueLettersCount ]

\* a run whose TotalKeys exceeds what the scored channel and one batch of a
\* single key can take
LongRunKeys == NumScorerWorkers * KeyInfosPerScorer + 2

\* the entities the crypto primitive can return in a run
AllEntities == [id : 1..Max2(TotalKeys, LongRunKeys), kind : Kinds]

\* the scorer's computation for each entity, evaluated once
ScoreTable ==
  { <<entity, CalculateScores(LastSixteen(Fingerprint(entity)))>> :
      entity \in AllEntities }

ScoresOf ==
  [entity \in AllEntities |-> (CHOOSE p \in ScoreTable : p[1] = entity)[2]]

KeyInfoTable == { <<entity, NewKeyInfo(entity)>> : entity \in AllEntities }

KeyInfoOf ==
  [entity \in AllEntities |-> (CHOOSE p \in KeyInfoTable : p[1] = entity)[2]]

\* does the scorer forward this entity (before serialization)?
Accepts(isPooled, entity) ==
  ~Rejected(isPooled, TotalScore(ScoresOf[entity]),
            ScoresOf[entity].UniqueLettersCount)

(***************************************************************************)
(* The pipeline: keyService.GenerateKeys.                                  *)
(***************************************************************************)
NoEntity == [id |-> 0, kind |-> 0]
NoKeyInfo == <<>>

VARIABLES
  pooled,             \* TRUE: the pooled variant of the service runs
  BatchSize,          \* s.config.BatchSize, copied from the config file
  jobCount,           \* jobCount := cfg.TotalKeys
  encryptor,          \* s.encryptor, as passed to NewKeyService
  totalFlag,          \* --total of the generate command: [changed, value]
  batchFlag,          \* --batch of the generate command: [changed, value]
  scoring,            \* a direct call of CalculateScores: [line, done, scores, err]
  parallel,           \* concurrent calls of CalculateScores: [tables, calls, results]
  aws,                \* an AsyncWriteSyncer and the goroutines that use it
  keyInfoPool,        \* scorer workers sharing a sync.Pool of *KeyInfo
  cancelled,          \* ctx.Done() is closed
  generationJobs,     \* tokens buffered in the generationJobs channel
  jobsClosed,
  generatedEntities,  \* the generatedEntities channel's buffer
  generatedClosed,
  scoredKeyInfos,     \* the scoredKeyInfos channel's buffer
  scoredClosed,
  dispatcher,         \* the enqueue goroutine: [pc, i]
  generators,         \* per generator worker: [pc, entity]
  scorers,            \* per scorer worker: [pc, keyInfo]
  saver,              \* the saver goroutine: [pc, localBatch]
  txState,            \* the saver's transaction
  batchCalls,         \* every BatchCreate call so far: [keys, outcome]
  persisted,          \* committed rows
  mainPc,             \* GenerateKeys' own position
  result,             \* what GenerateKeys returned
  generated,          \* how many entities of each kind were generated
  errChan,            \* pooled variant: the error channel (capacity 1)
  faults              \* candidate-level failures so far: [stage, entity]

\* the configuration never changes during a run, and the pipeline leaves
\* direct calls of the scoring engine and the log writer alone
settings == << pooled, BatchSize, jobCount, encryptor, totalFlag, batchFlag >>

cfgVars == << settings, scoring, parallel, aws, keyInfoPool >>

vars ==
  << cfgVars, cancelled, generationJobs, jobsClosed, generatedEntities,
     generatedClosed, scoredKeyInfos, scoredClosed, dispatcher, generators,
     scorers, saver, txState, batchCalls, persisted, mainPc, result,
     generated, errChan, faults >>

chanVars ==
  << generationJobs, jobsClosed, generatedEntities, generatedClosed,
     scoredKeyInfos, scoredClosed >>
repoVars == << txState, batchCalls, persisted, errChan >>
mainVars == << mainPc, result >>

\* everything a call of GenerateKeys reads and writes besides its settings
runVars ==
  << cancelled, chanVars, dispatcher, generators, scorers, saver, repoVars,
     mainVars, generated, faults >>

\* the values s.encryptor can hold: a *PGPEncryptor, or the nil interface
PGPEncryptor == "PGPEncryptor"
NoEncryptor == "nil"

\* a command-line flag that was not given: Changed() is false, the value is
\* the declared default 0
NoFlag == [changed |-> FALSE, value |-> 0]
FlagValues(max) ==
  {NoFlag} \cup {[changed |-> TRUE, value |-> v] : v \in 1..max}

\* no direct call of CalculateScores is in progress
NoCall ==
  [ variant |-> "optimized", line |-> <<>>, done |-> FALSE,
    scores |-> ZeroScores, err |-> "nil" ]

\* the package-level lookup tables once init() has run
LookupTables ==
  [ charToValueMap |-> charToValueMap, repeatScoreMap |-> repeatScoreMap,
    sequenceScoreMap |-> sequenceScoreMap ]

\* the goroutines of a parallel benchmark, and the inputs they score
NumCallers == 2
Callers == 1..NumCallers
ParallelLines ==
  { <<>>, Line(<<"0", "1", "2", "3", "4">>), Line(<<"A", "A", "A", "4", "9">>),
    Line(<<"F", "0", "!", "0">>) }

\* a goroutine that is not inside CalculateScores
IdleCall == [pc |-> "idle", line |-> <<>>, i |-> 0, st |-> <<>>]

\* no call of CalculateScores has been made by the benchmark's goroutines
NoCalls ==
  [ tables |-> LookupTables, calls |-> [w \in Callers |-> IdleCall],
    results |-> {} ]

\* no AsyncWriteSyncer has been made, no benchmark goroutine started, no
\* pool of KeyInfo objects looked into
NoWriter == [variant |-> "none"]
NoBenchmark == [calls |-> <<>>]
NoPool == [workers |-> <<>>]

\* the goroutines that call Write and Sync, the Write calls and the Sync
\* calls of a run, and the capacity of the log channel (scaled down from
\* 10000, and from the 1000 and 10 of the tests)
NumLogWriters == 2
NumLogSyncers == 2
MaxMessages == 3
MaxSyncCalls == 3
LogChanSize == 1
LogWriters == 1..NumLogWriters
LogSyncers == 1..NumLogSyncers

\* if aws.buffer.Len() > 4096
forceFlushSize == 4096

\* the scorer workers of the pool model and the candidates they are given
NumPoolScorers == 2
NumPoolEntities == 3
PoolScorers == 1..NumPoolScorers

\* the fields of a KeyInfo, in the order the scorer assigns them
KeyInfoFields ==
  << "Fingerprint", "PublicKey", "PrivateKey", "RepeatLetterScore",
     "IncreasingLetterScore", "DecreasingLetterScore", "MagicLetterScore",
     "Score", "UniqueLettersCount" >>

\* &models.KeyInfo{}: what the pool's New function returns
ZeroKeyInfo ==
  [ Fingerprint |-> <<>>, PublicKey |-> 0, PrivateKey |-> 0,
    RepeatLetterScore |-> 0, IncreasingLetterScore |-> 0,
    DecreasingLetterScore |-> 0, MagicLetterScore |-> 0, Score |-> 0,
    UniqueLettersCount |-> 0 ]

\* a scorer worker at the top of its loop, holding no candidate
IdleScorer == [pc |-> "select", entity |-> NoEntity, keyInfo |-> 0, n |-> 0]

\* scorer workers were started on an empty pool: heap is the KeyInfo objects
\* allocated so far (a *KeyInfo is an index into it), free the pointers the
\* pool holds, input and output the two channels, localBatch the saver's
\* slice and created the rows the saver passed to BatchCreate
EmptyPool ==
  [ heap |-> <<>>, free |-> {}, input |-> <<>>, output |-> <<>>,
    workers |-> [w \in PoolScorers |-> IdleScorer], cancelled |-> FALSE,
    localBatch |-> <<>>, created |-> <<>> ]

\* neither the parallel benchmark, nor the log writer, nor the pool model
\* takes part in the run
Aside ==
  /\ parallel = NoBenchmark
  /\ aws = NoWriter
  /\ keyInfoPool = NoPool

\* the workers GenerateKeys started: generatorWorkerCount, scorerWorkerCount
Generators == DOMAIN generators
Scorers == DOMAIN scorers

\* make(chan struct{}, generatorWorkerCount*1000)
generationJobsCap == Cardinality(Generators) * JobsPerGenerator
\* make(chan *openpgp.Entity, jobCount)
generatedEntitiesCap == jobCount
\* make(chan *models.KeyInfo, scorerWorkerCount*10000)
scoredKeyInfosCap == Cardinality(Scorers) * KeyInfosPerScorer

\* the state once GenerateKeys has made its channels and started its goroutines
Started(generatorWorkerCount, scorerWorkerCount) ==
  /\ pooled \in BOOLEAN
  /\ BatchSize \in 1..MaxBatchSize
  /\ cancelled = FALSE
  /\ generationJobs = 0
  /\ jobsClosed = FALSE
  /\ generatedEntities = <<>>
  /\ generatedClosed = FALSE
  /\ scoredKeyInfos = <<>>
  /\ scoredClosed = FALSE
  /\ dispatcher = [pc |-> "loop", i |-> 0]
  /\ generators = [g \in 1..generatorWorkerCount |->
                     [pc |-> "select", entity |-> NoEntity]]
  /\ scorers = [s \in 1..scorerWorkerCount |->
                  [pc |-> "select", keyInfo |-> NoKeyInfo]]
  /\ saver = [pc |-> "begin", localBatch |-> <<>>]
  /\ txState = "none"
  /\ batchCalls = <<>>
  /\ persisted = <<>>
  /\ mainPc = "waitGenerators"
  /\ result = "pending"
  /\ generated = [kind \in Kinds |-> 0]
  /\ errChan = <<>>
  /\ faults = {}

\* NewApp through InitializeKeyService: the service holds a PGPEncryptor
Wired == encryptor = PGPEncryptor

\* GenerateKeys is called with no flag given on the command line
NoFlags ==
  /\ totalFlag = NoFlag
  /\ batchFlag = NoFlag

Init ==
  /\ Started(NumGeneratorWorkers, NumScorerWorkers)
  /\ Wired
  /\ NoFlags
  /\ scoring = NoCall
  /\ jobCount = TotalKeys
  /\ Aside

\* the worker counts are not validated: any count from zero up may be configured
InitAnyWorkers ==
  \E generatorWorkerCount \in 0..NumGeneratorWorkers,
     scorerWorkerCount \in 0..NumScorerWorkers :
    /\ Started(generatorWorkerCount, scorerWorkerCount)
    /\ Wired
    /\ NoFlags
    /\ scoring = NoCall
    /\ jobCount = TotalKeys
    /\ Aside

\* NewKeyService takes any Encryptor, the nil interface included
InitAnyEncryptor ==
  /\ Started(NumGeneratorWorkers, NumScorerWorkers)
  /\ encryptor \in {PGPEncryptor, NoEncryptor}
  /\ NoFlags
  /\ scoring = NoCall
  /\ jobCount = TotalKeys
  /\ Aside

\* the generate command is run with or without --total and --batch
InitCommand ==
  /\ Started(NumGeneratorWorkers, NumScorerWorkers)
  /\ Wired
  /\ totalFlag \in FlagValues(TotalKeys)
  /\ batchFlag \in FlagValues(MaxBatchSize)
  /\ scoring = NoCall
  /\ jobCount = TotalKeys
  /\ Aside

\* faulty variant: the loop runs while i <= jobCount, one token too many
DispatcherSendOneMore ==
  /\ dispatcher.pc = "loop"
  /\ dispatcher.i <= jobCount
  /\ ~jobsClosed
  /\ generationJobs < generationJobsCap
  /\ generationJobs' = generationJobs + 1
  /\ dispatcher' = [dispatcher EXCEPT !.i = @ + 1]
  /\ UNCHANGED << cfgVars, cancelled, jobsClosed, generatedEntities,
                  generatedClosed, scoredKeyInfos, scoredClosed, generators,
                  scorers, saver, repoVars, mainVars, generated, faults >>

(***************************************************************************)
(* The enqueue goroutine (key_service.go:126-136).                         *)
(***************************************************************************)
\* case generationJobs <- struct{}{}
DispatcherSend ==
  /\ dispatcher.pc = "loop"
  /\ dispatcher.i < jobCount
  /\ ~jobsClosed
  /\ generationJobs < generationJobsCap
  /\ generationJobs' = generationJobs + 1
  /\ dispatcher' = [dispatcher EXCEPT !.i = @ + 1]
  /\ UNCHANGED << cfgVars, cancelled, jobsClosed, generatedEntities,
                  generatedClosed, scoredKeyInfos, scoredClosed, generators,
                  scorers, saver, repoVars, mainVars, generated, faults >>

\* faulty variant: a plain send, no ctx.Done() case in the enqueue loop
DispatcherIgnoresCancel ==
  /\ FALSE
  /\ UNCHANGED vars

\* case <-ctx.Done(): return, and the deferred close(generationJobs)
DispatcherCancelled ==
  /\ dispatcher.pc = "loop"
  /\ dispatcher.i < jobCount
  /\ cancelled
  /\ jobsClosed' = TRUE
  /\ dispatcher' = [dispatcher EXCEPT !.pc = "done"]
  /\ UNCHANGED << cfgVars, cancelled, generationJobs, generatedEntities,
                  generatedClosed, scoredKeyInfos, scoredClosed, generators,
                  scorers, saver, repoVars, mainVars, generated, faults >>

\* faulty variant: the enqueue goroutine returns without close(generationJobs)
DispatcherNoClose ==
  /\ dispatcher.pc = "loop"
  /\ dispatcher.i >= jobCount
  /\ dispatcher' = [dispatcher EXCEPT !.pc = "done"]
  /\ UNCHANGED << cfgVars, cancelled, chanVars, generators, scorers, saver,
                  repoVars, mainVars, generated, faults >>

\* the loop ends: the deferred close(generationJobs)
DispatcherClose ==
  /\ dispatcher.pc = "loop"
  /\ dispatcher.i >= jobCount
  /\ jobsClosed' = TRUE
  /\ dispatcher' = [dispatcher EXCEPT !.pc = "done"]
  /\ UNCHANGED << cfgVars, cancelled, generationJobs, generatedEntities,
                  generatedClosed, scoredKeyInfos, scoredClosed, generators,
                  scorers, saver, repoVars, mainVars, generated, faults >>

(***************************************************************************)
(* keyService.generatorWorker (key_service.go:154-180).                    *)
(***************************************************************************)
\* faulty variant: the token is read but stays in the channel
GeneratorReceiveKeepsToken(g) ==
  /\ generators[g].pc = "select"
  /\ generationJobs > 0
  /\ generationJobs' = generationJobs
  /\ \E kind \in Kinds :
       /\ generated' = [generated EXCEPT ![kind] = @ + 1]
       /\ generators' =
            [generators EXCEPT
               ![g] = [pc |-> "send",
                       entity |-> [id |-> generated[kind] + 1, kind |-> kind]]]
  /\ UNCHANGED << cfgVars, cancelled, jobsClosed, generatedEntities,
                  generatedClosed, scoredKeyInfos, scoredClosed, dispatcher,
                  scorers, saver, repoVars, mainVars, faults >>

\* case _, ok := <-jobs with ok: GenerateKeyPair succeeds
GeneratorReceive(g) ==
  /\ generators[g].pc = "select"
  /\ generationJobs > 0
  /\ generationJobs' = generationJobs - 1
  /\ \E kind \in Kinds :
       /\ generated' = [generated EXCEPT ![kind] = @ + 1]
       /\ generators' =
            [generators EXCEPT
               ![g] = [pc |-> "send",
                       entity |-> [id |-> generated[kind] + 1, kind |-> kind]]]
  /\ UNCHANGED << cfgVars, cancelled, jobsClosed, generatedEntities,
                  generatedClosed, scoredKeyInfos, scoredClosed, dispatcher,
                  scorers, saver, repoVars, mainVars, faults >>

\* case _, ok := <-jobs with ok: GenerateKeyPair fails, continue
GeneratorReceiveFail(g) ==
  /\ generators[g].pc = "select"
  /\ generationJobs > 0
  /\ generationJobs' = generationJobs - 1
  /\ faults' = faults \cup {[stage |-> "generate", entity |-> NoEntity]}
  /\ UNCHANGED << cfgVars, cancelled, jobsClosed, generatedEntities,
                  generatedClosed, scoredKeyInfos, scoredClosed, dispatcher,
                  generators, scorers, saver, repoVars, mainVars, generated >>

\* case _, ok := <-jobs with !ok
GeneratorJobsClosed(g) ==
  /\ generators[g].pc = "select"
  /\ generationJobs = 0
  /\ jobsClosed
  /\ generators' = [generators EXCEPT ![g] = [pc |-> "done", entity |-> NoEntity]]
  /\ UNCHANGED << cfgVars, cancelled, chanVars, dispatcher, scorers, saver,
                  repoVars, mainVars, generated, faults >>

\* case <-ctx.Done() of the outer select
GeneratorCancelled(g) ==
  /\ generators[g].pc = "select"
  /\ cancelled
  /\ generators' = [generators EXCEPT ![g] = [pc |-> "done", entity |-> NoEntity]]
  /\ UNCHANGED << cfgVars, cancelled, chanVars, dispatcher, scorers, saver,
                  repoVars, mainVars, generated, faults >>

\* case output <- entity
GeneratorSend(g) ==
  /\ generators[g].pc = "send"
  /\ ~generatedClosed
  /\ Len(generatedEntities) < generatedEntitiesCap
  /\ generatedEntities' = Append(generatedEntities, generators[g].entity)
  /\ generators' = [generators EXCEPT ![g] = [pc |-> "select", entity |-> NoEntity]]
  /\ UNCHANGED << cfgVars, cancelled, generationJobs, jobsClosed,
                  generatedClosed, scoredKeyInfos, scoredClosed, dispatcher,
                  scorers, saver, repoVars, mainVars, generated, faults >>

\* case <-ctx.Done() of the inner select: the worker returns with the entity
\* it could not send
GeneratorSendCancelled(g) ==
  /\ generators[g].pc = "send"
  /\ cancelled
  /\ generators' = [generators EXCEPT ![g].pc = "done"]
  /\ UNCHANGED << cfgVars, cancelled, chanVars, dispatcher, scorers, saver,
                  repoVars, mainVars, generated, faults >>

(***************************************************************************)
(* keyService.scorerWorker (key_service.go:183-237).                       *)
(***************************************************************************)
\* faulty variant: the scorer forgets to skip a rejected candidate
ScorerRejectForwards(s) ==
  /\ scorers[s].pc = "select"
  /\ generatedEntities /= <<>>
  /\ ~Accepts(pooled, Head(generatedEntities))
  /\ generatedEntities' = Tail(generatedEntities)
  /\ scorers' =
       [scorers EXCEPT
          ![s] = [pc |-> "send", keyInfo |-> KeyInfoOf[Head(generatedEntities)]]]
  /\ UNCHANGED << cfgVars, cancelled, generationJobs, jobsClosed,
                  generatedClosed, scoredKeyInfos, scoredClosed, dispatcher,
                  generators, saver, repoVars, mainVars, generated, faults >>

\* case entity, ok := <-input with ok: the candidate is rejected, continue
ScorerReject(s) ==
  /\ scorers[s].pc = "select"
  /\ generatedEntities /= <<>>
  /\ ~Accepts(pooled, Head(generatedEntities))
  /\ generatedEntities' = Tail(generatedEntities)
  /\ UNCHANGED << cfgVars, cancelled, generationJobs, jobsClosed,
                  generatedClosed, scoredKeyInfos, scoredClosed, dispatcher,
                  generators, scorers, saver, repoVars, mainVars, generated,
                  faults >>

\* case entity, ok := <-input with ok: accepted and serialized
ScorerAccept(s) ==
  /\ scorers[s].pc = "select"
  /\ generatedEntities /= <<>>
  /\ Accepts(pooled, Head(generatedEntities))
  /\ encryptor /= NoEncryptor
  /\ generatedEntities' = Tail(generatedEntities)
  /\ scorers' =
       [scorers EXCEPT
          ![s] = [pc |-> "send", keyInfo |-> KeyInfoOf[Head(generatedEntities)]]]
  /\ UNCHANGED << cfgVars, cancelled, generationJobs, jobsClosed,
                  generatedClosed, scoredKeyInfos, scoredClosed, dispatcher,
                  generators, saver, repoVars, mainVars, generated, faults >>

\* faulty variant: the error of SerializeKeys is logged but not followed by
\* continue, so the KeyInfo is built and sent all the same
ScorerSerializeFailForwards(s) ==
  /\ scorers[s].pc = "select"
  /\ generatedEntities /= <<>>
  /\ Accepts(pooled, Head(generatedEntities))
  /\ encryptor /= NoEncryptor
  /\ generatedEntities' = Tail(generatedEntities)
  /\ faults' =
       faults \cup {[stage |-> "serialize", entity |-> Head(generatedEntities)]}
  /\ scorers' =
       [scorers EXCEPT
          ![s] = [pc |-> "send", keyInfo |-> KeyInfoOf[Head(generatedEntities)]]]
  /\ UNCHANGED << cfgVars, cancelled, generationJobs, jobsClosed,
                  generatedClosed, scoredKeyInfos, scoredClosed, dispatcher,
                  generators, saver, repoVars, mainVars, generated >>

\* case entity, ok := <-input with ok: accepted, SerializeKeys fails, continue
ScorerSerializeFail(s) ==
  /\ scorers[s].pc = "select"
  /\ generatedEntities /= <<>>
  /\ Accepts(pooled, Head(generatedEntities))
  /\ encryptor /= NoEncryptor
  /\ generatedEntities' = Tail(generatedEntities)
  /\ faults' =
       faults \cup {[stage |-> "serialize", entity |-> Head(generatedEntities)]}
  /\ UNCHANGED << cfgVars, cancelled, generationJobs, jobsClosed,
                  generatedClosed, scoredKeyInfos, scoredClosed, dispatcher,
                  generators, scorers, saver, repoVars, mainVars, generated >>

\* case entity, ok := <-input with !ok
ScorerInputClosed(s) ==
  /\ scorers[s].pc = "select"
  /\ generatedEntities = <<>>
  /\ generatedClosed
  /\ scorers' = [scorers EXCEPT ![s] = [pc |-> "done", keyInfo |-> NoKeyInfo]]
  /\ UNCHANGED << cfgVars, cancelled, chanVars, dispatcher, generators, saver,
                  repoVars, mainVars, generated, faults >>

\* case <-ctx.Done() of the outer select
ScorerCancelled(s) ==
  /\ scorers[s].pc = "select"
  /\ cancelled
  /\ scorers' = [scorers EXCEPT ![s] = [pc |-> "done", keyInfo |-> NoKeyInfo]]
  /\ UNCHANGED << cfgVars, cancelled, chanVars, dispatcher, generators, saver,
                  repoVars, mainVars, generated, faults >>

\* case output <- keyInfo
ScorerSend(s) ==
  /\ scorers[s].pc = "send"
  /\ ~scoredClosed
  /\ Len(scoredKeyInfos) < scoredKeyInfosCap
  /\ scoredKeyInfos' = Append(scoredKeyInfos, scorers[s].keyInfo)
  /\ scorers' = [scorers EXCEPT ![s] = [pc |-> "select", keyInfo |-> NoKeyInfo]]
  /\ UNCHANGED << cfgVars, cancelled, generationJobs, jobsClosed,
                  generatedEntities, generatedClosed, scoredClosed, dispatcher,
                  generators, saver, repoVars, mainVars, generated, faults >>

\* case <-ctx.Done() of the inner select
ScorerSendCancelled(s) ==
  /\ scorers[s].pc = "send"
  /\ cancelled
  /\ scorers' = [scorers EXCEPT ![s] = [pc |-> "done", keyInfo |-> NoKeyInfo]]
  /\ UNCHANGED << cfgVars, cancelled, chanVars, dispatcher, generators, saver,
                  repoVars, mainVars, generated, faults >>

(***************************************************************************)
(* The repository transaction (repository.RepositoryTransaction).  One     *)
(* transaction holds the rows of its successful BatchCreate calls until    *)
(* Commit makes them durable or Rollback discards them.                    *)
(***************************************************************************)
RECURSIVE RowsOf(_)
RowsOf(calls) ==
  IF calls = <<>> THEN <<>>
  ELSE (IF Head(calls).outcome = "ok" THEN Head(calls).keys ELSE <<>>)
         \o RowsOf(Tail(calls))

\* rows inserted in the open transaction
PendingRows == RowsOf(batchCalls)

FingerprintsOf(rows) == {rows[i].Fingerprint : i \in 1..Len(rows)}

\* fingerprint is the primary key: a duplicate insert is an error
NoDuplicate(keys) ==
  /\ \A i, j \in 1..Len(keys) : keys[i].Fingerprint = keys[j].Fingerprint => i = j
  /\ FingerprintsOf(keys) \cap FingerprintsOf(PendingRows \o persisted) = {}

BeginTransaction ==
  txState' = "open"

\* tx.BatchCreate(keys) with the given outcome: "ok", "err" or "panic"
BatchCreate(keys, outcome) ==
  /\ outcome = "ok" => NoDuplicate(keys)
  /\ batchCalls' = Append(batchCalls, [keys |-> keys, outcome |-> outcome])

Commit ==
  /\ txState' = "committed"
  /\ persisted' = persisted \o PendingRows

\* a failed Commit ends the transaction and makes none of its rows durable
CommitFail ==
  /\ txState' = "aborted"
  /\ persisted' = persisted

Rollback ==
  txState' = "rolledback"

(***************************************************************************)
(* The saver goroutine (key_service.go:76-123, part_021:86-140).           *)
(***************************************************************************)
\* errChan <- err with a default case
TrySendErr(err) ==
  errChan' = IF pooled /\ Len(errChan) < 1 THEN Append(errChan, err) ELSE errChan

\* faulty variant: off by one, the batch is flushed one key late
BatchFullOffByOne(localBatch) == Len(localBatch) > BatchSize

\* the batch is flushed once it holds BatchSize keys
BatchFull(localBatch) == Len(localBatch) >= BatchSize

\* a failed BatchCreate: the plain saver rolls back, the pooled one reports
AfterBatchFailure ==
  IF pooled THEN txState' = txState /\ TrySendErr("batch")
  ELSE Rollback /\ errChan' = errChan

\* the deferred recover(): tx.Rollback()
AfterPanic ==
  Rollback /\ errChan' = errChan

SaverBegin ==
  /\ saver.pc = "begin"
  /\ BeginTransaction
  /\ saver' = [saver EXCEPT !.pc = "range"]
  /\ UNCHANGED << cfgVars, cancelled, chanVars, dispatcher, generators, scorers,
                  batchCalls, persisted, errChan, mainVars, generated, faults >>

\* faulty variant: once the context is cancelled the saver discards what it
\* receives
SaverAppendDropsOnCancel ==
  /\ saver.pc = "range"
  /\ scoredKeyInfos /= <<>>
  /\ ~BatchFull(Append(saver.localBatch, Head(scoredKeyInfos)))
  /\ scoredKeyInfos' = Tail(scoredKeyInfos)
  /\ saver' = IF cancelled THEN saver
              ELSE [saver EXCEPT !.localBatch = Append(@, Head(scoredKeyInfos))]
  /\ UNCHANGED << cfgVars, cancelled, generationJobs, jobsClosed,
                  generatedEntities, generatedClosed, scoredClosed, dispatcher,
                  generators, scorers, repoVars, mainVars, generated, faults >>

\* for key := range scoredKeyInfos: append, batch not yet full
SaverAppend ==
  /\ saver.pc = "range"
  /\ scoredKeyInfos /= <<>>
  /\ ~BatchFull(Append(saver.localBatch, Head(scoredKeyInfos)))
  /\ scoredKeyInfos' = Tail(scoredKeyInfos)
  /\ saver' = [saver EXCEPT !.localBatch = Append(@, Head(scoredKeyInfos))]
  /\ UNCHANGED << cfgVars, cancelled, generationJobs, jobsClosed,
                  generatedEntities, generatedClosed, scoredClosed, dispatcher,
                  generators, scorers, repoVars, mainVars, generated, faults >>

\* faulty variant: the batch is not reset after a successful insert
SaverFlushKeepsBatch ==
  /\ saver.pc = "range"
  /\ scoredKeyInfos /= <<>>
  /\ BatchFull(Append(saver.localBatch, Head(scoredKeyInfos)))
  /\ scoredKeyInfos' = Tail(scoredKeyInfos)
  /\ BatchCreate(Append(saver.localBatch, Head(scoredKeyInfos)), "ok")
  /\ saver' = [saver EXCEPT !.localBatch = Append(@, Head(scoredKeyInfos))]
  /\ UNCHANGED << cfgVars, cancelled, generationJobs, jobsClosed,
                  generatedEntities, generatedClosed, scoredClosed, dispatcher,
                  generators, scorers, txState, persisted, errChan, mainVars,
                  generated, faults >>

\* append, batch full, BatchCreate succeeds
SaverFlush ==
  /\ saver.pc = "range"
  /\ scoredKeyInfos /= <<>>
  /\ BatchFull(Append(saver.localBatch, Head(scoredKeyInfos)))
  /\ scoredKeyInfos' = Tail(scoredKeyInfos)
  /\ BatchCreate(Append(saver.localBatch, Head(scoredKeyInfos)), "ok")
  /\ saver' = [saver EXCEPT !.localBatch = <<>>]
  /\ UNCHANGED << cfgVars, cancelled, generationJobs, jobsClosed,
                  generatedEntities, generatedClosed, scoredClosed, dispatcher,
                  generators, scorers, txState, persisted, errChan, mainVars,
                  generated, faults >>

\* append, batch full, BatchCreate returns an error: the saver returns
SaverFlushFail ==
  /\ saver.pc = "range"
  /\ scoredKeyInfos /= <<>>
  /\ BatchFull(Append(saver.localBatch, Head(scoredKeyInfos)))
  /\ scoredKeyInfos' = Tail(scoredKeyInfos)
  /\ BatchCreate(Append(saver.localBatch, Head(scoredKeyInfos)), "err")
  /\ AfterBatchFailure
  /\ saver' = [pc |-> "done", localBatch |-> <<>>]
  /\ faults' = faults
  /\ UNCHANGED << cfgVars, cancelled, generationJobs, jobsClosed,
                  generatedEntities, generatedClosed, scoredClosed, dispatcher,
                  generators, scorers, persisted, mainVars, generated >>

\* append, batch full, BatchCreate panics: recover and roll back
SaverFlushPanic ==
  /\ saver.pc = "range"
  /\ scoredKeyInfos /= <<>>
  /\ BatchFull(Append(saver.localBatch, Head(scoredKeyInfos)))
  /\ scoredKeyInfos' = Tail(scoredKeyInfos)
  /\ BatchCreate(Append(saver.localBatch, Head(scoredKeyInfos)), "panic")
  /\ AfterPanic
  /\ saver' = [pc |-> "done", localBatch |-> <<>>]
  /\ faults' = faults
  /\ UNCHANGED << cfgVars, cancelled, generationJobs, jobsClosed,
                  generatedEntities, generatedClosed, scoredClosed, dispatcher,
                  generators, scorers, persisted, mainVars, generated >>

\* the range loop ended: scoredKeyInfos is closed and drained
Drained == saver.pc = "range" /\ scoredKeyInfos = <<>> /\ scoredClosed

\* the remaining keys are inserted; localBatch is not reset afterwards
SaverFinalFlush ==
  /\ Drained
  /\ Len(saver.localBatch) > 0
  /\ BatchCreate(saver.localBatch, "ok")
  /\ saver' = [saver EXCEPT !.pc = "commit"]
  /\ UNCHANGED << cfgVars, cancelled, chanVars, dispatcher, generators, scorers,
                  txState, persisted, errChan, mainVars, generated, faults >>

SaverFinalFlushFail ==
  /\ Drained
  /\ Len(saver.localBatch) > 0
  /\ BatchCreate(saver.localBatch, "err")
  /\ AfterBatchFailure
  /\ saver' = [pc |-> "done", localBatch |-> <<>>]
  /\ faults' = faults
  /\ UNCHANGED << cfgVars, cancelled, chanVars, dispatcher, generators, scorers,
                  persisted, mainVars, generated >>

SaverFinalFlushPanic ==
  /\ Drained
  /\ Len(saver.localBatch) > 0
  /\ BatchCreate(saver.localBatch, "panic")
  /\ AfterPanic
  /\ saver' = [pc |-> "done", localBatch |-> <<>>]
  /\ faults' = faults
  /\ UNCHANGED << cfgVars, cancelled, chanVars, dispatcher, generators, scorers,
                  persisted, mainVars, generated >>

ReadyToCommit ==
  \/ saver.pc = "commit"
  \/ Drained /\ Len(saver.localBatch) = 0

\* tx.Commit() succeeds
SaverCommit ==
  /\ ReadyToCommit
  /\ Commit
  /\ saver' = [pc |-> "done", localBatch |-> <<>>]
  /\ UNCHANGED << cfgVars, cancelled, chanVars, dispatcher, generators, scorers,
                  batchCalls, errChan, mainVars, generated, faults >>

\* tx.Commit() returns an error
SaverCommitFail ==
  /\ ReadyToCommit
  /\ CommitFail
  /\ TrySendErr("commit")
  /\ saver' = [pc |-> "done", localBatch |-> <<>>]
  /\ faults' = faults
  /\ UNCHANGED << cfgVars, cancelled, chanVars, dispatcher, generators, scorers,
                  batchCalls, mainVars, generated >>

(***************************************************************************)
(* GenerateKeys itself (key_service.go:138-151) and the caller's context.  *)
(***************************************************************************)
AllGeneratorsDone == \A g \in Generators : generators[g].pc = "done"
AllScorersDone == \A s \in Scorers : scorers[s].pc = "done"

\* faulty variant: close(generatedEntities) without wgGenerators.Wait()
MainCloseGeneratedNoWait ==
  /\ mainPc = "waitGenerators"
  /\ generatedClosed' = TRUE
  /\ mainPc' = "waitScorers"
  /\ UNCHANGED << cfgVars, cancelled, generationJobs, jobsClosed,
                  generatedEntities, scoredKeyInfos, scoredClosed, dispatcher,
                  generators, scorers, saver, repoVars, result, generated,
                  faults >>

\* wgGenerators.Wait(); close(generatedEntities)
MainCloseGenerated ==
  /\ mainPc = "waitGenerators"
  /\ AllGeneratorsDone
  /\ generatedClosed' = TRUE
  /\ mainPc' = "waitScorers"
  /\ UNCHANGED << cfgVars, cancelled, generationJobs, jobsClosed,
                  generatedEntities, scoredKeyInfos, scoredClosed, dispatcher,
                  generators, scorers, saver, repoVars, result, generated,
                  faults >>

\* faulty variant: close(scoredKeyInfos) without wgScorers.Wait()
MainCloseScoredNoWait ==
  /\ mainPc = "waitScorers"
  /\ scoredClosed' = TRUE
  /\ mainPc' = "waitSaver"
  /\ UNCHANGED << cfgVars, cancelled, generationJobs, jobsClosed,
                  generatedEntities, generatedClosed, scoredKeyInfos,
                  dispatcher, generators, scorers, saver, repoVars, result,
                  generated, faults >>

\* wgScorers.Wait(); close(scoredKeyInfos)
MainCloseScored ==
  /\ mainPc = "waitScorers"
  /\ AllScorersDone
  /\ scoredClosed' = TRUE
  /\ mainPc' = "waitSaver"
  /\ UNCHANGED << cfgVars, cancelled, generationJobs, jobsClosed,
                  generatedEntities, generatedClosed, scoredKeyInfos,
                  dispatcher, generators, scorers, saver, repoVars, result,
                  generated, faults >>

\* insertWg.Wait(); return nil
MainReturn ==
  /\ mainPc = "waitSaver"
  /\ saver.pc = "done"
  /\ mainPc' = "returned"
  /\ result' = "nil"
  /\ UNCHANGED << cfgVars, cancelled, chanVars, dispatcher, generators, scorers,
                  saver, repoVars, generated, faults >>

\* the caller cancels ctx
Cancel ==
  /\ ~cancelled
  /\ cancelled' = TRUE
  /\ UNCHANGED << cfgVars, chanVars, dispatcher, generators, scorers, saver,
                  repoVars, mainVars, generated, faults >>

Next ==
  \/ DispatcherSend
  \/ DispatcherCancelled
  \/ DispatcherClose
  \/ \E g \in Generators : GeneratorReceive(g)
  \/ \E g \in Generators : GeneratorReceiveFail(g)
  \/ \E g \in Generators : GeneratorJobsClosed(g)
  \/ \E g \in Generators : GeneratorCancelled(g)
  \/ \E g \in Generators : GeneratorSend(g)
  \/ \E g \in Generators : GeneratorSendCancelled(g)
  \/ \E s \in Scorers : ScorerReject(s)
  \/ \E s \in Scorers : ScorerAccept(s)
  \/ \E s \in Scorers : ScorerSerializeFail(s)
  \/ \E s \in Scorers : ScorerInputClosed(s)
  \/ \E s \in Scorers : ScorerCancelled(s)
  \/ \E s \in Scorers : ScorerSend(s)
  \/ \E s \in Scorers : ScorerSendCancelled(s)
  \/ SaverBegin
  \/ SaverAppend
  \/ SaverFlush
  \/ SaverFlushFail
  \/ SaverFlushPanic
  \/ SaverFinalFlush
  \/ SaverFinalFlushFail
  \/ SaverFinalFlushPanic
  \/ SaverCommit
  \/ SaverCommitFail
  \/ MainCloseGenerated
  \/ MainCloseScored
  \/ MainReturn
  \/ Cancel

Spec == Init /\ [][Next]_vars

\* runs with any configured worker counts, zero included
AnyWorkersSpec == InitAnyWorkers /\ [][Next]_vars

\* case entity, ok := <-input with ok: accepted, and SerializeKeys calls
\* encryptor.Encrypt on the nil interface.  The runtime panics in the scorer
\* goroutine, which has no recover: the process exits, every goroutine with it
ScorerNilPanic(s) ==
  /\ scorers[s].pc = "select"
  /\ generatedEntities /= <<>>
  /\ Accepts(pooled, Head(generatedEntities))
  /\ encryptor = NoEncryptor
  /\ generatedEntities' = Tail(generatedEntities)
  /\ dispatcher' = [dispatcher EXCEPT !.pc = "crashed"]
  /\ generators' =
       [g \in Generators |-> [generators[g] EXCEPT !.pc = "crashed"]]
  /\ scorers' = [w \in Scorers |-> [scorers[w] EXCEPT !.pc = "crashed"]]
  /\ saver' = [saver EXCEPT !.pc = "crashed"]
  /\ mainPc' = "crashed"
  /\ UNCHANGED << cfgVars, cancelled, generationJobs, jobsClosed,
                  generatedClosed, scoredKeyInfos, scoredClosed, repoVars,
                  result, generated, faults >>

NextAnyEncryptor ==
  \/ Next
  \/ \E s \in Scorers : ScorerNilPanic(s)

\* runs of a service built with any Encryptor, nil included
AnyEncryptorSpec == InitAnyEncryptor /\ [][NextAnyEncryptor]_vars

\* runs started by the generate command, with or without its flags
CommandSpec == InitCommand /\ [][Next]_vars

(***************************************************************************)
(* Direct calls of the scoring engine, outside any run of the pipeline.    *)
(***************************************************************************)
ScoringInit ==
  /\ Started(NumGeneratorWorkers, NumScorerWorkers)
  /\ pooled = FALSE
  /\ BatchSize = 1
  /\ Wired
  /\ NoFlags
  /\ scoring \in { [NoCall EXCEPT !.line = line, !.variant = variant] :
                      line \in ScoringInputs, variant \in Variants }
  /\ jobCount = TotalKeys
  /\ Aside

\* the call runs into a runtime panic
Panics(variant, line) == variant = "basic" /\ PanicsBasic(line)

\* the Scores the variant returns for a line it does not panic on
ScoresBy(variant, line) ==
  IF variant = "basic" THEN CalculateScoresBasic(line)
  ELSE CalculateScores(line)

\* result, err := CalculateScores(line); every return site returns a nil
\* error
Score ==
  /\ ~scoring.done
  /\ ~Panics(scoring.variant, scoring.line)
  /\ scoring' =
       [scoring EXCEPT
          !.done = TRUE,
          !.scores = ScoresBy(scoring.variant, scoring.line),
          !.err = "nil"]
  /\ UNCHANGED << settings, parallel, aws, keyInfoPool, runVars >>

\* CalculateScores(line) panics: nothing is returned to the caller
ScorePanic ==
  /\ ~scoring.done
  /\ Panics(scoring.variant, scoring.line)
  /\ scoring' = [scoring EXCEPT !.done = TRUE, !.err = "panic"]
  /\ UNCHANGED << settings, parallel, aws, keyInfoPool, runVars >>

ScoringNext == Score \/ ScorePanic

ScoringSpec == ScoringInit /\ [][ScoringNext]_vars

(***************************************************************************)
(* Concurrent calls of CalculateScores (first file of unnamed/part_015),   *)
(* one loop iteration per step: the locals of a call live in the calling   *)
(* goroutine's frame, the lookup tables are shared.                        *)
(***************************************************************************)
\* the tail of CalculateScores: the runs still open are scored and the
\* Scores are built (lines 256-283)
Finish(line, st) ==
  [ RepeatLetterScore |->
      IF st.repeatLen >= minSeqLength
      THEN Max2(st.maxRepeatScore, repeatScoreMap[st.repeatLen])
      ELSE st.maxRepeatScore,
    IncreasingLetterScore |->
      IF st.increasingLen > minSeqLength
      THEN Max2(st.maxIncreasingScore, sequenceScoreMap[st.increasingLen])
      ELSE st.maxIncreasingScore,
    DecreasingLetterScore |->
      IF st.decreasingLen > minSeqLength
      THEN Max2(st.maxDecreasingScore, sequenceScoreMap[st.decreasingLen])
      ELSE st.maxDecreasingScore,
    MagicLetterScore |-> boolToInt(ContainsMagic(line)) * magicScore,
    UniqueLettersCount |-> st.uniqueCount ]

ParallelInit ==
  /\ Started(NumGeneratorWorkers, NumScorerWorkers)
  /\ pooled = FALSE
  /\ BatchSize = 1
  /\ Wired
  /\ NoFlags
  /\ scoring = NoCall
  /\ jobCount = TotalKeys
  /\ parallel = NoCalls
  /\ aws = NoWriter
  /\ keyInfoPool = NoPool

\* scores, err := CalculateScores(input): the empty string returns at once,
\* any other input declares the locals and handles the first character
ParallelCall(w) ==
  /\ parallel.calls[w].pc = "idle"
  /\ \E line \in ParallelLines :
       parallel' =
         IF Len(line) = 0
         THEN [parallel EXCEPT !.results = @ \cup {<<line, ZeroScores>>}]
         ELSE [parallel EXCEPT
                 !.calls[w] = [pc |-> "scan", line |-> line, i |-> 1,
                               st |-> ScanInit(line)]]
  /\ UNCHANGED << settings, scoring, aws, keyInfoPool, runVars >>

\* faulty variant: the locals of the scan are package-level variables, one
\* copy for every goroutine
ParallelStepShared(w) ==
  /\ parallel.calls[w].pc = "scan"
  /\ parallel.calls[w].i < Len(parallel.calls[w].line)
  /\ LET call == parallel.calls[w]
         next == ScanStep(call.st, call.line[call.i + 1])
     IN parallel' =
          [parallel EXCEPT
             !.calls = [v \in Callers |->
                          IF v = w
                          THEN [call EXCEPT !.i = @ + 1, !.st = next]
                          ELSE IF parallel.calls[v].pc = "scan"
                               THEN [parallel.calls[v] EXCEPT !.st = next]
                               ELSE parallel.calls[v]]]
  /\ UNCHANGED << settings, scoring, aws, keyInfoPool, runVars >>

\* one iteration of the main loop, on the call's own locals; the tables are
\* read, never written
ParallelStep(w) ==
  /\ parallel.calls[w].pc = "scan"
  /\ parallel.calls[w].i < Len(parallel.calls[w].line)
  /\ LET call == parallel.calls[w]
         next == ScanStep(call.st, call.line[call.i + 1])
     IN parallel' =
          [parallel EXCEPT !.calls[w] = [call EXCEPT !.i = @ + 1, !.st = next]]
  /\ UNCHANGED << settings, scoring, aws, keyInfoPool, runVars >>

\* the loop is over: return Scores{...}, nil
ParallelReturn(w) ==
  /\ parallel.calls[w].pc = "scan"
  /\ parallel.calls[w].i = Len(parallel.calls[w].line)
  /\ LET call == parallel.calls[w] IN
       parallel' =
         [parallel EXCEPT
            !.results = @ \cup {<<call.line, Finish(call.line, call.st)>>},
            !.calls[w] = IdleCall]
  /\ UNCHANGED << settings, scoring, aws, keyInfoPool, runVars >>

ParallelNext ==
  \E w \in Callers : ParallelCall(w) \/ ParallelStep(w) \/ ParallelReturn(w)

ParallelSpec == ParallelInit /\ [][ParallelNext]_vars

(***************************************************************************)
(* The pooled scorer workers at the level of pointers: a *KeyInfo taken    *)
(* from the sync.Pool is filled field by field, sent to the saver, and put *)
(* back only by a worker that gave up its send.                            *)
(***************************************************************************)
\* the candidates of the run are in the input channel, which is closed: the
\* first has any of the sample fingerprints, the others alternate between
\* the two the pooled skip test lets through
PoolInputs ==
  { [i \in 1..NumPoolEntities |->
       [id |-> i, kind |-> IF i = 1 THEN first ELSE 1 + (i % 2)]] :
      first \in Kinds }

PoolInit ==
  /\ Started(NumGeneratorWorkers, NumScorerWorkers)
  /\ pooled = TRUE
  /\ BatchSize = MaxBatchSize
  /\ Wired
  /\ NoFlags
  /\ scoring = NoCall
  /\ jobCount = TotalKeys
  /\ parallel = NoBenchmark
  /\ aws = NoWriter
  /\ \E input \in PoolInputs :
       keyInfoPool = [EmptyPool EXCEPT !.input = input]

PoolUnchanged == UNCHANGED << settings, scoring, parallel, aws, runVars >>

\* the caller cancels ctx
PoolCancel ==
  /\ ~keyInfoPool.cancelled
  /\ keyInfoPool' = [keyInfoPool EXCEPT !.cancelled = TRUE]
  /\ PoolUnchanged

\* case <-ctx.Done() of the outer select
PoolScorerCancelled(w) ==
  /\ keyInfoPool.workers[w].pc = "select"
  /\ keyInfoPool.cancelled
  /\ keyInfoPool' = [keyInfoPool EXCEPT !.workers[w].pc = "done"]
  /\ PoolUnchanged

\* case entity, ok := <-input with !ok
PoolScorerInputClosed(w) ==
  /\ keyInfoPool.workers[w].pc = "select"
  /\ keyInfoPool.input = <<>>
  /\ keyInfoPool' = [keyInfoPool EXCEPT !.workers[w].pc = "done"]
  /\ PoolUnchanged

\* the candidate fails the skip test: continue
PoolScorerReject(w) ==
  /\ keyInfoPool.workers[w].pc = "select"
  /\ keyInfoPool.input /= <<>>
  /\ ~Accepts(TRUE, Head(keyInfoPool.input))
  /\ keyInfoPool' = [keyInfoPool EXCEPT !.input = Tail(@)]
  /\ PoolUnchanged

\* SerializeKeys returns an error: continue
PoolScorerSerializeFail(w) ==
  /\ keyInfoPool.workers[w].pc = "select"
  /\ keyInfoPool.input /= <<>>
  /\ Accepts(TRUE, Head(keyInfoPool.input))
  /\ keyInfoPool' = [keyInfoPool EXCEPT !.input = Tail(@)]
  /\ PoolUnchanged

\* keyInfo := pool.Get(): the pool hands out an object
\* that was put back, with the fields it had then
PoolGetPooled(w) ==
  /\ keyInfoPool.workers[w].pc = "select"
  /\ keyInfoPool.input /= <<>>
  /\ Accepts(TRUE, Head(keyInfoPool.input))
  /\ \E a \in keyInfoPool.free :
       keyInfoPool' =
         [keyInfoPool EXCEPT
            !.input = Tail(@),
            !.free = @ \ {a},
            !.workers[w] = [pc |-> "fill", entity |-> Head(keyInfoPool.input),
                            keyInfo |-> a, n |-> 1]]
  /\ PoolUnchanged

\* keyInfo := pool.Get(): the pool calls New; Get may do
\* so whatever the pool holds
PoolGetNew(w) ==
  /\ keyInfoPool.workers[w].pc = "select"
  /\ keyInfoPool.input /= <<>>
  /\ Accepts(TRUE, Head(keyInfoPool.input))
  /\ keyInfoPool' =
       [keyInfoPool EXCEPT
          !.input = Tail(@),
          !.heap = Append(@, ZeroKeyInfo),
          !.workers[w] = [pc |-> "fill", entity |-> Head(keyInfoPool.input),
                          keyInfo |-> Len(keyInfoPool.heap) + 1, n |-> 1]]
  /\ PoolUnchanged

\* keyInfo.<field> = ...: one assignment, in the order of the source
PoolAssign(w) ==
  /\ keyInfoPool.workers[w].pc = "fill"
  /\ LET worker == keyInfoPool.workers[w]
         field == KeyInfoFields[worker.n]
     IN keyInfoPool' =
          [keyInfoPool EXCEPT
             !.heap[worker.keyInfo][field] = KeyInfoOf[worker.entity][field],
             !.workers[w] =
               IF worker.n = Len(KeyInfoFields)
               THEN [worker EXCEPT !.pc = "send"]
               ELSE [worker EXCEPT !.n = @ + 1]]
  /\ PoolUnchanged

\* faulty variant: the object goes back to the pool once it has been sent
PoolScorerSendPuts(w) ==
  /\ keyInfoPool.workers[w].pc = "send"
  /\ keyInfoPool' =
       [keyInfoPool EXCEPT
          !.output = Append(@, keyInfoPool.workers[w].keyInfo),
          !.free = @ \cup {keyInfoPool.workers[w].keyInfo},
          !.workers[w] = IdleScorer]
  /\ PoolUnchanged

\* case output <- keyInfo: the pointer is the saver's from now on
PoolScorerSend(w) ==
  /\ keyInfoPool.workers[w].pc = "send"
  /\ keyInfoPool' =
       [keyInfoPool EXCEPT
          !.output = Append(@, keyInfoPool.workers[w].keyInfo),
          !.workers[w] = IdleScorer]
  /\ PoolUnchanged

\* case <-ctx.Done() of the send: pool.Put(keyInfo); return
PoolScorerSendCancelled(w) ==
  /\ keyInfoPool.workers[w].pc = "send"
  /\ keyInfoPool.cancelled
  /\ keyInfoPool' =
       [keyInfoPool EXCEPT
          !.free = @ \cup {keyInfoPool.workers[w].keyInfo},
          !.workers[w] = [IdleScorer EXCEPT !.pc = "done"]]
  /\ PoolUnchanged

\* for keyInfo := range scoredKeyInfos: localBatch = append(localBatch,
\* keyInfo), and tx.BatchCreate(localBatch) once the batch is full
PoolSaverReceive ==
  /\ keyInfoPool.output /= <<>>
  /\ LET batch == Append(keyInfoPool.localBatch, Head(keyInfoPool.output)) IN
       keyInfoPool' =
         IF Len(batch) >= BatchSize
         THEN [keyInfoPool EXCEPT
                 !.output = Tail(@),
                 !.localBatch = <<>>,
                 !.created =
                   @ \o [i \in 1..Len(batch) |-> keyInfoPool.heap[batch[i]]]]
         ELSE [keyInfoPool EXCEPT !.output = Tail(@), !.localBatch = batch]
  /\ PoolUnchanged

\* the scored channel is closed and drained: the remaining keys are saved
PoolSaverFinalFlush ==
  /\ keyInfoPool.output = <<>>
  /\ \A w \in PoolScorers : keyInfoPool.workers[w].pc = "done"
  /\ keyInfoPool.localBatch /= <<>>
  /\ keyInfoPool' =
       [keyInfoPool EXCEPT
          !.localBatch = <<>>,
          !.created =
            @ \o [i \in 1..Len(keyInfoPool.localBatch) |->
                   keyInfoPool.heap[keyInfoPool.localBatch[i]]]]
  /\ PoolUnchanged

PoolNext ==
  \/ PoolCancel
  \/ PoolSaverReceive
  \/ PoolSaverFinalFlush
  \/ \E w \in PoolScorers :
       \/ PoolScorerCancelled(w)
       \/ PoolScorerInputClosed(w)
       \/ PoolScorerReject(w)
       \/ PoolScorerSerializeFail(w)
       \/ PoolGetPooled(w)
       \/ PoolGetNew(w)
       \/ PoolAssign(w)
       \/ PoolScorerSend(w)
       \/ PoolScorerSendCancelled(w)

PoolSpec == PoolInit /\ [][PoolNext]_vars

(***************************************************************************)
(* The asynchronous log writer: AsyncWriteSyncer, in its two variants.     *)
(* "buffered" is the one that gathers lines in a bytes.Buffer, "plain" the *)
(* one that passes every message on as it is.  The underlying writer       *)
(* accepts every write.  A panic ends the program.                         *)
(***************************************************************************)
\* a message is the argument of one Write call: its length in bytes and
\* whether it ends with a newline; the block is the data of TestBufferOverflow
MessageKinds ==
  { [size |-> 64, newline |-> TRUE], [size |-> 64, newline |-> FALSE],
    [size |-> 8192, newline |-> FALSE] }

\* a goroutine that is not inside Write has no message in hand
NoMessage == [id |-> 0, size |-> 0, newline |-> FALSE]

RECURSIVE BytesIn(_)
\* buffer.Len(), for a buffer holding these messages
BytesIn(messages) ==
  IF messages = <<>> THEN 0
  ELSE Head(messages).size + BytesIn(Tail(messages))

\* NewAsyncWriteSyncer(ws, bufferSize): go aws.run()
NewAsyncWriteSyncer(variant) ==
  [ variant |-> variant,
    logChan |-> <<>>, logChanClosed |-> FALSE, closeChClosed |-> FALSE,
    closeOnce |-> "fresh", closes |-> 0,
    buffer |-> <<>>, bufferMu |-> "unlocked",
    run |-> "select", resume |-> "select",
    written |-> <<>>, synced |-> FALSE,
    calls |-> 0,
    writers |-> [w \in LogWriters |-> [pc |-> "idle", p |-> NoMessage]],
    acked |-> {}, refused |-> {},
    syncCalls |-> 0,
    syncers |-> [s \in LogSyncers |-> [pc |-> "idle", before |-> {}]],
    panicked |-> FALSE ]

LoggerInit ==
  /\ Started(NumGeneratorWorkers, NumScorerWorkers)
  /\ pooled = FALSE
  /\ BatchSize = 1
  /\ Wired
  /\ NoFlags
  /\ scoring = NoCall
  /\ jobCount = TotalKeys
  /\ parallel = NoBenchmark
  /\ keyInfoPool = NoPool
  /\ \E variant \in {"buffered", "plain"} :
       aws = NewAsyncWriteSyncer(variant)

LoggerUnchanged ==
  UNCHANGED << settings, scoring, parallel, keyInfoPool, runVars >>

\* the messages the underlying writer has received
Delivered ==
  UNION { {aws.written[i][j].id : j \in 1..Len(aws.written[i])} :
            i \in 1..Len(aws.written) }

\* aws.Write(p) is called
WriteCall(w) ==
  /\ ~aws.panicked
  /\ aws.writers[w].pc = "idle"
  /\ aws.calls < MaxMessages
  /\ \E kind \in MessageKinds :
       aws' =
         [aws EXCEPT
            !.calls = @ + 1,
            !.writers[w] =
              [pc |-> "select",
               p |-> [id |-> aws.calls + 1, size |-> kind.size,
                      newline |-> kind.newline]]]
  /\ LoggerUnchanged

\* case aws.logChan <- p: return len(p), nil (in the plain variant also the
\* send of the default branch, once the channel has room)
WriteSend(w) ==
  /\ ~aws.panicked
  /\ aws.writers[w].pc = "select"
  /\ ~aws.logChanClosed
  /\ Len(aws.logChan) < LogChanSize
  /\ aws' =
       [aws EXCEPT
          !.logChan = Append(@, aws.writers[w].p),
          !.acked = @ \cup {aws.writers[w].p.id},
          !.writers[w] = [pc |-> "idle", p |-> NoMessage]]
  /\ LoggerUnchanged

\* case <-aws.closeCh: return 0, fmt.Errorf("async writer is closed")
WriteClosed(w) ==
  /\ ~aws.panicked
  /\ aws.variant = "buffered"
  /\ aws.writers[w].pc = "select"
  /\ aws.closeChClosed
  /\ aws' =
       [aws EXCEPT
          !.refused = @ \cup {aws.writers[w].p.id},
          !.writers[w] = [pc |-> "idle", p |-> NoMessage]]
  /\ LoggerUnchanged

\* aws.logChan <- p on the closed channel: of the cases of a select that can
\* proceed one is chosen, and a send on a closed channel proceeds by
\* panicking
WritePanic(w) ==
  /\ ~aws.panicked
  /\ aws.writers[w].pc = "select"
  /\ aws.logChanClosed
  /\ aws' =
       [aws EXCEPT !.writers[w].pc = "panicked", !.panicked = TRUE]
  /\ LoggerUnchanged

\* aws.Sync() (or aws.Close() of the plain variant) is called
SyncCall(s) ==
  /\ ~aws.panicked
  /\ aws.syncers[s].pc \in {"idle", "returned"}
  /\ aws.syncCalls < MaxSyncCalls
  /\ aws' =
       [aws EXCEPT
          !.syncCalls = @ + 1,
          !.syncers[s] = [pc |-> "once", before |-> aws.acked]]
  /\ LoggerUnchanged

\* closeOnce.Do(f), first caller: f starts and closes its first channel,
\* closeCh in the buffered variant, logChan in the plain one
SyncCloseFirst(s) ==
  /\ ~aws.panicked
  /\ aws.syncers[s].pc = "once"
  /\ aws.closeOnce = "fresh"
  /\ aws' =
       [aws EXCEPT
          !.closeOnce = "running",
          !.closes = @ + 1,
          !.closeChClosed = IF aws.variant = "buffered" THEN TRUE ELSE @,
          !.logChanClosed = IF aws.variant = "plain" THEN TRUE ELSE @,
          !.syncers[s].pc = "closing"]
  /\ LoggerUnchanged

\* f closes its second channel and returns
SyncCloseSecond(s) ==
  /\ ~aws.panicked
  /\ aws.syncers[s].pc = "closing"
  /\ aws' =
       [aws EXCEPT
          !.closeOnce = "done",
          !.closes = @ + 1,
          !.closeChClosed = TRUE,
          !.logChanClosed = TRUE,
          !.syncers[s].pc = "wait"]
  /\ LoggerUnchanged

\* closeOnce.Do(f), any later caller: returns once f has returned
SyncOnceDone(s) ==
  /\ ~aws.panicked
  /\ aws.syncers[s].pc = "once"
  /\ aws.closeOnce = "done"
  /\ aws' = [aws EXCEPT !.syncers[s].pc = "wait"]
  /\ LoggerUnchanged

\* aws.wg.Wait() returns; return aws.writeSyncer.Sync()
SyncReturn(s) ==
  /\ ~aws.panicked
  /\ aws.syncers[s].pc = "wait"
  /\ aws.run = "exited"
  /\ aws' = [aws EXCEPT !.synced = TRUE, !.syncers[s].pc = "returned"]
  /\ LoggerUnchanged

\* writeData(p): the message joins the buffer; a newline sends the buffer up
\* to it to the underlying writer as one line; what is left stays, and when
\* it is longer than 4096 bytes writeData calls flushBuffer with bufferMu
\* still locked
WriteData(p) ==
  IF p.newline
  THEN [aws EXCEPT
          !.logChan = Tail(@),
          !.written = Append(@, aws.buffer \o <<p>>),
          !.buffer = <<>>]
  ELSE IF BytesIn(aws.buffer \o <<p>>) > forceFlushSize
       THEN [aws EXCEPT
               !.logChan = Tail(@),
               !.buffer = @ \o <<p>>,
               !.bufferMu = "writeData",
               !.run = "flushBuffer", !.resume = "select"]
       ELSE [aws EXCEPT !.logChan = Tail(@), !.buffer = @ \o <<p>>]

\* run: case p, ok := <-aws.logChan with ok
RunReceive ==
  /\ ~aws.panicked
  /\ aws.run = "select"
  /\ aws.logChan /= <<>>
  /\ aws' =
       IF aws.variant = "buffered"
       THEN WriteData(Head(aws.logChan))
       ELSE [aws EXCEPT
               !.logChan = Tail(@),
               !.written = Append(@, <<Head(aws.logChan)>>)]
  /\ LoggerUnchanged

\* run: case p, ok := <-aws.logChan with !ok: flushBuffer, then return (the
\* plain variant returns at once)
RunLogChanClosed ==
  /\ ~aws.panicked
  /\ aws.run = "select"
  /\ aws.logChan = <<>>
  /\ aws.logChanClosed
  /\ aws' =
       IF aws.variant = "buffered"
       THEN [aws EXCEPT !.run = "flushBuffer", !.resume = "exited"]
       ELSE [aws EXCEPT !.run = "exited"]
  /\ LoggerUnchanged

\* run: case <-aws.closeCh: flushBuffer, then return (the plain variant
\* returns at once), whatever the log channel still holds
RunCloseCh ==
  /\ ~aws.panicked
  /\ aws.run = "select"
  /\ aws.closeChClosed
  /\ aws' =
       IF aws.variant = "buffered"
       THEN [aws EXCEPT !.run = "flushBuffer", !.resume = "exited"]
       ELSE [aws EXCEPT !.run = "exited"]
  /\ LoggerUnchanged

\* flushBuffer: aws.bufferMu.Lock() returns, which it does only when nobody
\* holds the mutex; what the buffer holds goes to the underlying writer,
\* the mutex is unlocked and the caller goes on
RunFlushBuffer ==
  /\ ~aws.panicked
  /\ aws.run = "flushBuffer"
  /\ aws.bufferMu = "unlocked"
  /\ aws' =
       [aws EXCEPT
          !.written = IF aws.buffer /= <<>> THEN Append(@, aws.buffer) ELSE @,
          !.buffer = <<>>,
          !.run = aws.resume]
  /\ LoggerUnchanged

WriterStep(w) == WriteSend(w) \/ WriteClosed(w) \/ WritePanic(w)

SyncerStep(s) ==
  SyncCloseFirst(s) \/ SyncCloseSecond(s) \/ SyncOnceDone(s) \/ SyncReturn(s)

RunStep == RunReceive \/ RunLogChanClosed \/ RunCloseCh \/ RunFlushBuffer

LoggerNext ==
  \/ \E w \in LogWriters : WriteCall(w) \/ WriterStep(w)
  \/ \E s \in LogSyncers : SyncCall(s) \/ SyncerStep(s)
  \/ RunStep

LoggerSpec == LoggerInit /\ [][LoggerNext]_vars

\* every goroutine that can take a step eventually takes one; nobody is
\* made to call Write or Sync
LoggerFairSpec ==
  /\ LoggerSpec
  /\ WF_vars(RunStep)
  /\ \A w \in LogWriters : WF_vars(WriterStep(w))
  /\ \A s \in LogSyncers : WF_vars(SyncerStep(s))

(***************************************************************************)
(* Fair scheduling: every goroutine that can take a step eventually takes  *)
(* one.  The caller's cancellation is not forced.                          *)
(***************************************************************************)
DispatcherStep == DispatcherSend \/ DispatcherCancelled \/ DispatcherClose

GeneratorStep(g) ==
  \/ GeneratorReceive(g)
  \/ GeneratorReceiveFail(g)
  \/ GeneratorJobsClosed(g)
  \/ GeneratorCancelled(g)
  \/ GeneratorSend(g)
  \/ GeneratorSendCancelled(g)

ScorerStep(s) ==
  \/ ScorerReject(s)
  \/ ScorerAccept(s)
  \/ ScorerSerializeFail(s)
  \/ ScorerInputClosed(s)
  \/ ScorerCancelled(s)
  \/ ScorerSend(s)
  \/ ScorerSendCancelled(s)

SaverStep ==
  \/ SaverBegin
  \/ SaverAppend
  \/ SaverFlush
  \/ SaverFlushFail
  \/ SaverFlushPanic
  \/ SaverFinalFlush
  \/ SaverFinalFlushFail
  \/ SaverFinalFlushPanic
  \/ SaverCommit
  \/ SaverCommitFail

MainStep == MainCloseGenerated \/ MainCloseScored \/ MainReturn

\* a step of any goroutine of the run (everything but the caller's Cancel)
ProgramStep ==
  \/ DispatcherStep
  \/ \E g \in Generators : GeneratorStep(g)
  \/ \E s \in Scorers : ScorerStep(s)
  \/ SaverStep
  \/ MainStep

\* the scheduler does not stop while some goroutine can run
FairSpec ==
  /\ Init
  /\ [][Next]_vars
  /\ WF_vars(ProgramStep)

\* a run with more keys than the scored channel and a batch of one key
\* take, under the same scheduler
LongRunInit ==
  /\ Started(NumGeneratorWorkers, NumScorerWorkers)
  /\ Wired
  /\ NoFlags
  /\ scoring = NoCall
  /\ jobCount = LongRunKeys
  /\ Aside

LongRunSpec ==
  /\ LongRunInit
  /\ [][Next]_vars
  /\ WF_vars(ProgramStep)

(***************************************************************************)
(* Vocabulary of the claims.                                               *)
(***************************************************************************)
Returned == mainPc = "returned"

BatchFailed == \E k \in 1..Len(batchCalls) : batchCalls[k].outcome = "err"
BatchPanicked == \E k \in 1..Len(batchCalls) : batchCalls[k].outcome = "panic"
CommitFailed == txState = "aborted"
RepoFailed == BatchFailed \/ BatchPanicked \/ CommitFailed

\* the candidates generated so far
Candidates ==
  UNION {{[id |-> i, kind |-> kind] : i \in 1..generated[kind]} : kind \in Kinds}

\* the acceptance check applied to a candidate's own scores
PassesCheck(entity) ==
  LET scores == ScoresOf[entity]
  IN IF pooled
     THEN ~(TotalScore(scores) <= MinScore /\ scores.UniqueLettersCount > MaxLettersCount)
     ELSE ~(TotalScore(scores) <= MinScore \/ scores.UniqueLettersCount < MaxLettersCount)

NoTwoAlike(rows) ==
  \A i, j \in 1..Len(rows) : rows[i].Fingerprint = rows[j].Fingerprint => i = j

\* every KeyInfo a scorer has built and is sending or has sent
ForwardedKeyInfos ==
  {scorers[s].keyInfo : s \in {t \in Scorers : scorers[t].pc = "send"}}
    \cup {scoredKeyInfos[i] : i \in 1..Len(scoredKeyInfos)}
    \cup {saver.localBatch[i] : i \in 1..Len(saver.localBatch)}
    \cup UNION {{batchCalls[k].keys[i] : i \in 1..Len(batchCalls[k].keys)} :
                  k \in 1..Len(batchCalls)}
    \cup {persisted[i] : i \in 1..Len(persisted)}

(***************************************************************************)
(* C1: in a run that is never cancelled and in which generation,           *)
(* serialization and every repository call succeed, when GenerateKeys      *)
(* returns the committed records are exactly the generated candidates      *)
(* that passed the acceptance check, each once, with no fingerprint twice. *)
(***************************************************************************)
C1_PersistedAreTheAccepted ==
  (Returned /\ ~cancelled /\ faults = {} /\ ~RepoFailed) =>
     /\ FingerprintsOf(persisted) =
          {Fingerprint(e) : e \in {c \in Candidates : PassesCheck(c)}}
     /\ NoTwoAlike(persisted)
     /\ Len(persisted) = Cardinality({c \in Candidates : PassesCheck(c)})

C1_Witness ==
  /\ Returned /\ ~cancelled /\ faults = {} /\ ~RepoFailed
  /\ Len(persisted) = 1
  /\ Cardinality(Candidates) = 2

(***************************************************************************)
(* C2: if a BatchCreate call of the saver returned an error, GenerateKeys  *)
(* returns a non-nil error.                                                *)
(***************************************************************************)
C2_BatchErrorIsReturned ==
  (Returned /\ BatchFailed) => result /= "nil"

(***************************************************************************)
(* C3: when the k-th batch insert (k > 1) or the final commit fails, the   *)
(* rows of the batches inserted before it are persisted after the run.     *)
(***************************************************************************)
C3_EarlierBatchesSurvive ==
  (/\ Returned
   /\ \/ \E k \in 2..Len(batchCalls) : batchCalls[k].outcome = "err"
      \/ CommitFailed) =>
     \A k \in 1..Len(batchCalls) :
        batchCalls[k].outcome = "ok" =>
           FingerprintsOf(batchCalls[k].keys) \subseteq FingerprintsOf(persisted)

(***************************************************************************)
(* C4 as stated: in every run, cancelled or not, the generation channel is *)
(* closed, then every generator has exited, then the generated channel is  *)
(* closed, then every scorer has exited, then the scored channel is        *)
(* closed, then the saver has exited, then GenerateKeys returns.           *)
(***************************************************************************)
SaverExited == saver.pc = "done"

C4_StrictShutdownOrder ==
  /\ AllGeneratorsDone => jobsClosed
  /\ generatedClosed => AllGeneratorsDone
  /\ AllScorersDone => generatedClosed
  /\ scoredClosed => AllScorersDone
  /\ SaverExited => scoredClosed
  /\ Returned => SaverExited

(***************************************************************************)
(* C4 amended: the whole order holds in a run that is not cancelled and    *)
(* has no failing or panicking batch insert; in every run the generated    *)
(* channel is closed only after every generator exited, the scored channel *)
(* only after the generated channel is closed and every scorer exited, and *)
(* GenerateKeys returns only after the scored channel is closed and the    *)
(* saver exited.                                                           *)
(***************************************************************************)
C4_ShutdownOrder ==
  /\ generatedClosed => AllGeneratorsDone
  /\ scoredClosed => (AllScorersDone /\ generatedClosed)
  /\ Returned => (SaverExited /\ scoredClosed)
  /\ ~cancelled => /\ AllGeneratorsDone => jobsClosed
                   /\ AllScorersDone => generatedClosed
  /\ ~(BatchFailed \/ BatchPanicked) => (SaverExited => scoredClosed)

C4_Witness ==
  /\ Returned /\ ~cancelled /\ ~RepoFailed
  /\ jobsClosed /\ generatedClosed /\ scoredClosed
  /\ Len(persisted) >= 1

(***************************************************************************)
(* C5: under fair scheduling a run that is never cancelled and whose       *)
(* repository calls all succeed eventually returns, and then all           *)
(* TotalKeys tokens are consumed, the three channels are closed and empty  *)
(* and every worker, the dispatcher and the saver have exited.             *)
(***************************************************************************)
Drained3 ==
  /\ dispatcher.pc = "done" /\ dispatcher.i = TotalKeys
  /\ jobsClosed /\ generationJobs = 0
  /\ generatedClosed /\ generatedEntities = <<>>
  /\ scoredClosed /\ scoredKeyInfos = <<>>
  /\ AllGeneratorsDone /\ AllScorersDone /\ SaverExited

C5_EventuallyReturns ==
  /\ <>(cancelled \/ RepoFailed \/ Returned)
  /\ []((Returned /\ ~cancelled /\ ~RepoFailed) => Drained3)

C5_Witness ==
  Returned /\ ~cancelled /\ ~RepoFailed /\ Drained3 /\ Len(persisted) = 2

(***************************************************************************)
(* C6: once the context is cancelled, under fair scheduling every          *)
(* generator, every scorer, the dispatcher and the saver exit and          *)
(* GenerateKeys returns.                                                   *)
(***************************************************************************)
AllExited ==
  /\ Returned
  /\ dispatcher.pc = "done"
  /\ AllGeneratorsDone /\ AllScorersDone /\ SaverExited

C6_CancelUnblocksEveryone == cancelled ~> AllExited

C6_Witness ==
  /\ cancelled /\ AllExited
  /\ dispatcher.i < TotalKeys
  /\ generationJobs = generationJobsCap

(***************************************************************************)
(* C7: after a cancelled run has returned the repository holds only whole  *)
(* batches that were handed to BatchCreate and committed: every batch but  *)
(* the last has BatchSize rows, the last between 1 and BatchSize, and no   *)
(* batch is partly written.                                                *)
(***************************************************************************)
OkCalls == SelectSeq(batchCalls, LAMBDA call : call.outcome = "ok")

C7_OnlyWholeBatches ==
  (Returned /\ cancelled) =>
     /\ persisted = <<>> \/ persisted = RowsOf(OkCalls)
     /\ \A k \in 1..Len(OkCalls) :
          /\ Len(OkCalls[k].keys) \in 1..BatchSize
          /\ k < Len(OkCalls) => Len(OkCalls[k].keys) = BatchSize
     /\ \A k \in 1..Len(batchCalls) :
          \/ FingerprintsOf(batchCalls[k].keys) \subseteq FingerprintsOf(persisted)
          \/ FingerprintsOf(batchCalls[k].keys) \cap FingerprintsOf(persisted) = {}

C7_Witness ==
  /\ Returned /\ cancelled
  /\ dispatcher.i < TotalKeys
  /\ Len(persisted) = 1
  /\ txState = "committed"

(***************************************************************************)
(* C8: on every exit path of the saver the transaction opened by           *)
(* BeginTransaction has been committed or rolled back (by Rollback, or by  *)
(* the Commit that failed) by the time GenerateKeys returns; it is never   *)
(* left open.                                                              *)
(***************************************************************************)
C8_TransactionSettled ==
  Returned => txState \in {"committed", "rolledback", "aborted"}

(***************************************************************************)
(* C9: every KeyInfo a scorer sends on the scored channel, and so every    *)
(* persisted record, has a total score strictly greater than MinScore.     *)
(***************************************************************************)
C9_ForwardedAboveMinScore ==
  \A keyInfo \in ForwardedKeyInfos : keyInfo.Score > MinScore

(***************************************************************************)
(* C10: every persisted record has a UniqueLettersCount less than or equal *)
(* to MaxLettersCount.                                                     *)
(***************************************************************************)
C10_PersistedWithinMaxLetters ==
  \A i \in 1..Len(persisted) : persisted[i].UniqueLettersCount <= MaxLettersCount

(***************************************************************************)
(* C11 as stated: at the end of a failure-free, uncancelled run a record   *)
(* of a candidate is in storage if and only if its total score exceeds     *)
(* MinScore or its unique-digit count is within MaxLettersCount.           *)
(***************************************************************************)
AboveMinScore(entity) == TotalScore(ScoresOf[entity]) > MinScore
WithinMaxLetters(entity) ==
  ScoresOf[entity].UniqueLettersCount <= MaxLettersCount
IsPersisted(entity) == Fingerprint(entity) \in FingerprintsOf(persisted)
CleanRunEnded == Returned /\ ~cancelled /\ faults = {} /\ ~RepoFailed

ZeroWorkers == Generators = {} \/ Scorers = {}

C12_ZeroWorkersRejected ==
  (ZeroWorkers /\ Returned) =>
     /\ result /= "nil"
     /\ txState = "none"
     /\ dispatcher.i = 0
     /\ ~cancelled => dispatcher.pc = "done"

(***************************************************************************)
(* C13: a failure of generation, serialization or encryption for one       *)
(* candidate is confined to it: the candidate is never forwarded or        *)
(* persisted, its token is spent and not replaced, the other candidates    *)
(* are processed as usual, GenerateKeys still returns nil, and when every  *)
(* accepted candidate failed BatchCreate is never called.                  *)
(***************************************************************************)
\* the candidates dropped because SerializeKeys (or its Encrypt) failed
Dropped == {f.entity : f \in {x \in faults : x.stage = "serialize"}}
GenerationFailed == \E f \in faults : f.stage = "generate"

RECURSIVE SumOver(_, _)
SumOver(f, S) ==
  IF S = {} THEN 0
  ELSE LET x == CHOOSE y \in S : TRUE IN f[x] + SumOver(f, S \ {x})

\* tokens the generator workers have received so far
TokensReceived == dispatcher.i - generationJobs

C13_FailureIsConfined ==
  /\ \A e \in Dropped :
       Fingerprint(e) \notin {k.Fingerprint : k \in ForwardedKeyInfos}
  /\ dispatcher.i <= TotalKeys
  /\ SumOver(generated, Kinds) <= TokensReceived
  /\ GenerationFailed => SumOver(generated, Kinds) < TokensReceived
  /\ (Returned /\ ~cancelled /\ ~RepoFailed) =>
        /\ TokensReceived = TotalKeys
        /\ FingerprintsOf(persisted) =
             {Fingerprint(c) : c \in {x \in Candidates : PassesCheck(x)} \ Dropped}
  /\ (Returned /\ faults /= {}) => result = "nil"
  /\ (\A c \in Candidates : PassesCheck(c) => c \in Dropped) => batchCalls = <<>>

C13_Witness ==
  /\ Returned /\ ~cancelled /\ ~RepoFailed
  /\ Dropped /= {}
  /\ Len(persisted) = 1
  /\ result = "nil"

(***************************************************************************)
(* C14: the dispatcher never sends more than TotalKeys tokens, so at most  *)
(* TotalKeys entities are generated; the generation channel is closed once *)
(* and only by the dispatcher as it exits; in a run that is not cancelled  *)
(* it is closed only after exactly TotalKeys tokens were sent, and under   *)
(* fair scheduling that happens.                                           *)
(***************************************************************************)
TokensWithinTotal ==
  /\ dispatcher.i <= TotalKeys
  /\ SumOver(generated, Kinds) <= TotalKeys
  /\ jobsClosed <=> dispatcher.pc = "done"
  /\ (jobsClosed /\ ~cancelled) => dispatcher.i = TotalKeys

C14_ExactlyTotalKeysTokens ==
  /\ []TokensWithinTotal
  /\ [][jobsClosed => jobsClosed']_vars
  /\ <>(cancelled \/ (jobsClosed /\ dispatcher.i = TotalKeys))

C14_Witness ==
  /\ ~cancelled /\ jobsClosed
  /\ dispatcher.i = TotalKeys
  /\ SumOver(generated, Kinds) = TotalKeys

(***************************************************************************)
(* C15 as stated: every BatchCreate call but the last receives exactly     *)
(* BatchSize records, the last between 1 and BatchSize, none is empty, and *)
(* the in-memory batch is empty right after each successful flush, the     *)
(* final one included.                                                     *)
(***************************************************************************)
BatchSizesRight ==
  \A k \in 1..Len(batchCalls) :
    /\ Len(batchCalls[k].keys) \in 1..BatchSize
    /\ k < Len(batchCalls) => Len(batchCalls[k].keys) = BatchSize

\* the saver has just made its final insert and not yet committed
AfterFinalFlush == saver.pc = "commit"

C15_BatchEmptyAfterEveryFlush ==
  /\ BatchSizesRight
  /\ saver.pc = "range" => Len(saver.localBatch) < BatchSize
  /\ AfterFinalFlush => saver.localBatch = <<>>

(***************************************************************************)
(* C15 amended: the sizes are as stated, and the in-memory batch is empty  *)
(* right after each successful flush made inside the receive loop; the     *)
(* final flush of the remaining keys leaves the batch as it was.           *)
(***************************************************************************)
FlushedInLoop ==
  /\ saver.pc = "range" /\ saver'.pc = "range"
  /\ Len(batchCalls') = Len(batchCalls) + 1

C15_BatchEmptyAfterLoopFlush ==
  /\ []BatchSizesRight
  /\ [](saver.pc = "range" => Len(saver.localBatch) < BatchSize)
  /\ [](AfterFinalFlush =>
          saver.localBatch = batchCalls[Len(batchCalls)].keys)
  /\ [][FlushedInLoop => saver'.localBatch = <<>>]_vars

C15_Witness ==
  /\ AfterFinalFlush
  /\ BatchSize = 2
  /\ Len(batchCalls) = 1
  /\ Len(saver.localBatch) = 1

(***************************************************************************)
(* C16: a run cancelled before draining completes (here: before the        *)
(* dispatcher has sent all its tokens) does not report normal completion,  *)
(* and a run that is never cancelled and never fails reports it.           *)
(***************************************************************************)
CancelledBeforeDrained == cancelled /\ dispatcher.i < TotalKeys

C16_CancelledIsDistinguished ==
  /\ (Returned /\ CancelledBeforeDrained) => result /= "nil"
  /\ (Returned /\ ~cancelled /\ ~RepoFailed) => result = "nil"

(***************************************************************************)
(* C17: once the context is cancelled no generator worker receives another *)
(* token from the generation channel.                                      *)
(***************************************************************************)
C17_NoTokenAfterCancel ==
  [][cancelled => TokensReceived' <= TokensReceived]_vars

(***************************************************************************)
(* C18                                                                     *)
(***************************************************************************)
\* the process died of an unrecovered panic
Crashed == mainPc = "crashed"

\* C18: with no Encryptor supplied (nil) SerializeKeys returns the armored
\* private key unencrypted with no error and accepted candidates are
\* persisted; a nil Encryptor never causes a panic or an error in a scorer
\* worker: no run of a service built with a nil Encryptor crashes, and none
\* records a serialization failure.
C18_NilEncryptorIsHarmless ==
  encryptor = NoEncryptor =>
    /\ ~Crashed
    /\ \A fault \in faults : fault.stage /= "serialize"

(***************************************************************************)
(* C19                                                                     *)
(***************************************************************************)
\* GenerateCmd.Run: the values the command writes to appInstance.Config
\* before it calls GenerateKeys: the flag's when the flag was given, else the
\* config file's
CommandTotalKeys == IF totalFlag.changed THEN totalFlag.value ELSE TotalKeys
CommandBatchSize == IF batchFlag.changed THEN batchFlag.value ELSE BatchSize

\* the dispatcher left its loop without cancellation
DispatchedAll == jobsClosed /\ ~cancelled

\* C19: a run of GenerateKeys started by the generate command dispatches as
\* many tokens as the command has just set (--total, else the config file's
\* value) and flushes batches of the size the command has just set (--batch,
\* else the config file's value): an uncancelled dispatcher ends having sent
\* CommandTotalKeys tokens, and no BatchCreate call carries more than
\* CommandBatchSize keys.
C19_FlagsTakeEffect ==
  /\ DispatchedAll => dispatcher.i = CommandTotalKeys
  /\ \A k \in DOMAIN batchCalls :
       Len(batchCalls[k].keys) <= CommandBatchSize

(***************************************************************************)
(* C20                                                                     *)
(***************************************************************************)
\* the call of CalculateScores on the t-th line of the test table returned
Scored(t) == scoring.done /\ scoring.line = TestVectors[t].input

\* C20: CalculateScores returns exactly {1024, 0, 0, 0, 1} for
\* "8888888888888888", {0, 928, 0, 0, 16} for "0123456789ABCDEF",
\* {0, 0, 928, 0, 16} for "FEDCBA9876543210", {128, 224, 176, 0, 13} for
\* "0123456666FEDCBA", {0, 0, 0, -100, 9} for "1929394959697989" and
\* {176, 224, 0, 0, 9} for "FCEC7777789ABCDF", each without error (the first
\* six lines of the test table).
C20_TestVectorsScore ==
  \A t \in 1..6 :
    Scored(t) =>
      /\ scoring.scores = TestVectors[t].expected
      /\ scoring.err = "nil"

C20_Witness ==
  /\ Scored(6)
  /\ scoring.scores = Expected(176, 224, 0, 0, 9)

(***************************************************************************)
(* Vocabulary of the claims about the scoring engine.                      *)
(***************************************************************************)
\* the call of CalculateScores returned its Scores
ScoresReturned == scoring.done /\ scoring.err = "nil"

\* the call was made by the given variant on the given characters
Called(variant, chars) ==
  scoring.variant = variant /\ scoring.line = Line(chars)

\* a character of 0-9A-Fa-f
IsHexByte(c) == charToValueMap[c] >= 0

IsHexLine(line) == \A i \in DOMAIN line : IsHexByte(line[i])

\* strings.ToUpper on ASCII
UpperByte(c) == IF c \in 97..122 THEN c - 32 ELSE c

Upper(line) == [i \in DOMAIN line |-> UpperByte(line[i])]

(***************************************************************************)
(* C21                                                                     *)
(***************************************************************************)
\* C21: scoring is case-insensitive: for every string s over 0-9A-Fa-f,
\* CalculateScores(s) equals CalculateScores(uppercase(s)) in all five
\* fields; in particular "aAaA123" has RepeatLetterScore 128.
C21_CaseInsensitive ==
  (ScoresReturned /\ IsHexLine(scoring.line)) =>
    scoring.scores = ScoresBy(scoring.variant, Upper(scoring.line))

(***************************************************************************)
(* Runs of a string, as the claims speak of them.                          *)
(***************************************************************************)
\* the characters i..j are hex digits, each the cyclic successor of the one
\* before it
IncreasingRun(line, i, j) ==
  /\ \A k \in i..j : IsHexByte(line[k])
  /\ \A k \in i..(j - 1) : isIncreasing(line[k], line[k + 1])

\* the characters i..j are hex digits, each the cyclic predecessor of the one
\* before it
DecreasingRun(line, i, j) ==
  /\ \A k \in i..j : IsHexByte(line[k])
  /\ \A k \in i..(j - 1) : isDecreasing(line[k], line[k + 1])

\* the characters i..j are one hex digit, in either case
RepeatRun(line, i, j) ==
  /\ \A k \in i..j : IsHexByte(line[k])
  /\ \A k \in i..(j - 1) : charToValue(line[k]) = charToValue(line[k + 1])

\* the characters i..j are one hex digit in one letter case
SameByteRun(line, i, j) ==
  /\ \A k \in i..j : IsHexByte(line[k])
  /\ \A k \in i..(j - 1) : line[k] = line[k + 1]

\* a run of a kind: "increasing", "decreasing", "repeat" (by value) or
\* "same byte"
IsRun(kind, line, i, j) ==
  CASE kind = "increasing" -> IncreasingRun(line, i, j)
    [] kind = "decreasing" -> DecreasingRun(line, i, j)
    [] kind = "repeat" -> RepeatRun(line, i, j)
    [] kind = "same byte" -> SameByteRun(line, i, j)

\* the lengths of the runs of a kind in a line
RunLengths(line, kind) ==
  { p[2] - p[1] + 1 :
      p \in { q \in (DOMAIN line) \X (DOMAIN line) :
                q[1] <= q[2] /\ IsRun(kind, line, q[1], q[2]) } }

MaxOf(S) == CHOOSE m \in S : \A x \in S : x <= m

\* the greatest cost of a run of at least minLen characters, 0 without one
BestScore(line, kind, minLen, costs) ==
  MaxOf({0} \cup { costs[n] : n \in { m \in RunLengths(line, kind) : m >= minLen } })

(***************************************************************************)
(* C22                                                                     *)
(***************************************************************************)
\* C22: the run trackers are independent: for every hex string,
\* DecreasingLetterScore is the greatest sequence cost over the decreasing
\* runs of length >= 4 and IncreasingLetterScore the greatest over the
\* increasing runs of length >= 4, whatever follows a run ("43210123": the
\* decreasing run is scored although an increasing step follows it).
C22_IndependentTrackers ==
  (ScoresReturned /\ IsHexLine(scoring.line)) =>
    /\ scoring.scores.IncreasingLetterScore =
         BestScore(scoring.line, "increasing", 4, sequenceScoreMap)
    /\ scoring.scores.DecreasingLetterScore =
         BestScore(scoring.line, "decreasing", 4, sequenceScoreMap)

(***************************************************************************)
(* C23                                                                     *)
(***************************************************************************)
\* two stretches of hex digits with one other character between them
Separated(line) ==
  \E k \in 2..(Len(line) - 1) :
    /\ ~IsHexByte(line[k])
    /\ \A i \in DOMAIN line : i /= k => IsHexByte(line[i])

\* C23: a character outside 0-9A-Fa-f breaks every run in progress: two
\* stretches of valid characters separated by an invalid character are never
\* joined into one repeat, increasing or decreasing run, so no score exceeds
\* the greatest cost of a run inside one stretch ("AA!A" has no repeat run of
\* length 3, "012!3" no increasing run of length 4).
C23_InvalidBreaksRuns ==
  (ScoresReturned /\ Separated(scoring.line)) =>
    /\ scoring.scores.RepeatLetterScore <=
         BestScore(scoring.line, "repeat", 3, repeatScoreMap)
    /\ scoring.scores.IncreasingLetterScore <=
         BestScore(scoring.line, "increasing", 4, sequenceScoreMap)
    /\ scoring.scores.DecreasingLetterScore <=
         BestScore(scoring.line, "decreasing", 4, sequenceScoreMap)

(***************************************************************************)
(* C24                                                                     *)
(***************************************************************************)
\* the digit values 0..15 that occur in a line
DistinctValues(line) ==
  { charToValue(line[i]) : i \in { k \in DOMAIN line : IsHexByte(line[k]) } }

\* invalid characters at the start, then hex digits only
InvalidPrefix(line) ==
  \E k \in 1..Len(line) :
    \A i \in DOMAIN line : IsHexByte(line[i]) <=> i > k

\* C24: a character outside 0-9A-Fa-f is never counted as a unique digit and
\* never as a member of an increasing or decreasing run, also when the
\* string starts with it: the unique count is the number of digit values
\* present and no sequence score exceeds the greatest cost of a run of valid
\* characters ("!012" has IncreasingLetterScore 0 and UniqueLettersCount 3).
C24_InvalidNeverCounted ==
  (ScoresReturned /\ InvalidPrefix(scoring.line)) =>
    /\ scoring.scores.UniqueLettersCount =
         Cardinality(DistinctValues(scoring.line))
    /\ scoring.scores.IncreasingLetterScore <=
         BestScore(scoring.line, "increasing", 4, sequenceScoreMap)
    /\ scoring.scores.DecreasingLetterScore <=
         BestScore(scoring.line, "decreasing", 4, sequenceScoreMap)

(***************************************************************************)
(* C25                                                                     *)
(***************************************************************************)
\* C25: for every 16-character string over 0-9A-Fa-f, UniqueLettersCount is
\* between 1 and 16 and equals the number of distinct digit values 0..15
\* that occur in the string, the upper- and lower-case form of a letter
\* counting as one value.
C25_UniqueCountsValues ==
  (ScoresReturned /\ Len(scoring.line) = 16 /\ IsHexLine(scoring.line)) =>
    /\ scoring.scores.UniqueLettersCount \in 1..16
    /\ scoring.scores.UniqueLettersCount =
         Cardinality(DistinctValues(scoring.line))

\* "aAfFAbCd01234949" was scored: a, f, b, c, d, 0, 1, 2, 3, 4, 9
C25_Witness ==
  /\ ScoresReturned
  /\ scoring.line =
       Line(<<"a","A","f","F","A","b","C","d","0","1","2","3","4","9","4","9">>)
  /\ scoring.scores.UniqueLettersCount = 11

(***************************************************************************)
(* C26                                                                     *)
(***************************************************************************)
\* sub occurs in line as a substring
Occurs(sub, line) ==
  \E i \in 1..(Len(line) - Len(sub) + 1) :
    SubSeq(line, i, i + Len(sub) - 1) = sub

IsFloorOfPowThreeHalves(k, n) ==
  /\ k * k <= n * n * n
  /\ (k + 1) * (k + 1) > n * n * n

\* the table entry is 16 times the integer part of n to the power 1.5
CostOf(entry, n) ==
  /\ entry % 16 = 0
  /\ IsFloorOfPowThreeHalves(entry \div 16, n)

NonDecreasing(costs, from) ==
  \A n \in from..15 : costs[n] <= costs[n + 1]

\* one hex digit, repeated
Uniform(line) ==
  /\ Len(line) >= 1
  /\ IsHexByte(line[1])
  /\ \A i \in DOMAIN line : line[i] = line[1]

\* C28: the repeat-run cost never decreases with the run length for lengths
\* 3..16 and the sequence-run cost never decreases for lengths 4..16: a
\* longer run never scores less than a shorter one, so a string that is one
\* repeated digit scores at least the cost of every shorter run.
C28_CostsMonotone ==
  /\ NonDecreasing(repeatScoreMap, 3)
  /\ NonDecreasing(sequenceScoreMap, 4)
  /\ NonDecreasing(repeatScoreMapBasic, 3)
  /\ NonDecreasing(sequenceScoreMapBasic, 4)
  /\ (ScoresReturned /\ Uniform(scoring.line)) =>
       \A n \in 3..Len(scoring.line) :
         scoring.scores.RepeatLetterScore >= repeatScoreMap[n]

\* "AAAA" was scored with the cost of 4, above the cost of 3
C28_Witness ==
  /\ ScoresReturned
  /\ scoring.line = Line(<<"A","A","A","A">>)
  /\ scoring.scores.RepeatLetterScore = repeatScoreMap[4]
  /\ repeatScoreMap[4] > repeatScoreMap[3]

(***************************************************************************)
(* C29                                                                     *)
(***************************************************************************)
\* the whole line is one run of at least four characters
WholeRun(line, kind) == Len(line) >= 4 /\ IsRun(kind, line, 1, Len(line))

\* C29: runs are cyclic modulo 16: the step F to 0 extends an increasing run
\* and the step 0 to F a decreasing run, in either letter case, so a line
\* that is one cyclic run is scored with the cost of its length ("F0123":
\* 128) and "FEDF012" scores its run F012 (80); a step between non-adjacent
\* values or involving an invalid character extends neither run, so no
\* sequence score exceeds the greatest cost of a cyclic run of hex digits.
C29_CyclicRuns ==
  ScoresReturned =>
    /\ WholeRun(scoring.line, "increasing") =>
         scoring.scores.IncreasingLetterScore =
           sequenceScoreMap[Len(scoring.line)]
    /\ WholeRun(scoring.line, "decreasing") =>
         scoring.scores.DecreasingLetterScore =
           sequenceScoreMap[Len(scoring.line)]
    /\ scoring.line = Line(<<"F","E","D","F","0","1","2">>) =>
         scoring.scores.IncreasingLetterScore = 80
    /\ scoring.scores.IncreasingLetterScore <=
         BestScore(scoring.line, "increasing", 4, sequenceScoreMap)
    /\ scoring.scores.DecreasingLetterScore <=
         BestScore(scoring.line, "decreasing", 4, sequenceScoreMap)

(***************************************************************************)
(* C30                                                                     *)
(***************************************************************************)
\* the lengths of the runs of a kind that are still open where the line ends
OpenRunLengths(line, kind) ==
  { Len(line) - i + 1 : i \in { k \in DOMAIN line : IsRun(kind, line, k, Len(line)) } }

\* the call is over, with scores or with a panic
CallOver == scoring.done

\* C30: a run still open when the string ends is scored with the thresholds
\* of a run broken mid-string (a repeat of 3 or more, a sequence of 4 or
\* more); and for every string shorter than 3 characters, the empty string
\* included, CalculateScores returns without error or panic and the three
\* run scores are 0.
C30_OpenRunsAndShortLines ==
  CallOver =>
    /\ ScoresReturned =>
         /\ \A n \in OpenRunLengths(scoring.line, "same byte") :
              n >= 3 => scoring.scores.RepeatLetterScore >= repeatScoreMap[n]
         /\ \A n \in OpenRunLengths(scoring.line, "increasing") :
              n >= 4 => scoring.scores.IncreasingLetterScore >= sequenceScoreMap[n]
         /\ \A n \in OpenRunLengths(scoring.line, "decreasing") :
              n >= 4 => scoring.scores.DecreasingLetterScore >= sequenceScoreMap[n]
    /\ Len(scoring.line) < 3 =>
         /\ scoring.err = "nil"
         /\ scoring.scores.RepeatLetterScore = 0
         /\ scoring.scores.IncreasingLetterScore = 0
         /\ scoring.scores.DecreasingLetterScore = 0

(***************************************************************************)
(* C31                                                                     *)
(***************************************************************************)
\* the Scores the goroutines got for an input
ResultsFor(line) == { r[2] : r \in { q \in parallel.results : q[1] = line } }

ScorerBlocked(s) ==
  /\ scorers[s].pc = "send"
  /\ Len(scoredKeyInfos) >= scoredKeyInfosCap

\* C35: after a batch insert has failed and the saver has exited,
\* GenerateKeys eventually returns even if the context is never cancelled:
\* no scorer stays blocked on the full scored channel that nobody drains.
C35_ReturnsAfterBatchFailure ==
  (BatchFailed /\ SaverExited) ~> (Returned \/ cancelled)

(***************************************************************************)
(* C36                                                                     *)
(***************************************************************************)
\* nobody who may still send on a channel, or close it, finds it closed
NoSenderOnClosed ==
  /\ dispatcher.pc = "loop" => ~jobsClosed
  /\ \A g \in Generators : generators[g].pc = "send" => ~generatedClosed
  /\ \A s \in Scorers : scorers[s].pc = "send" => ~scoredClosed
  /\ mainPc = "waitGenerators" => ~generatedClosed
  /\ mainPc \in {"waitGenerators", "waitScorers"} => ~scoredClosed

\* a step that closes a channel closes an open one, and is taken by the
\* channel's one closer: the dispatcher as it ends, or GenerateKeys once the
\* workers that send on the channel have all exited
ClosedByItsCloser ==
  /\ jobsClosed' /= jobsClosed =>
       ~jobsClosed /\ dispatcher.pc = "loop" /\ dispatcher'.pc = "done"
  /\ generatedClosed' /= generatedClosed =>
       ~generatedClosed /\ mainPc = "waitGenerators" /\ AllGeneratorsDone
  /\ scoredClosed' /= scoredClosed =>
       ~scoredClosed /\ mainPc = "waitScorers" /\ AllScorersDone

\* C36: in every interleaving, cancellation at any point included, no
\* goroutine sends on a closed channel and no channel is closed twice: the
\* generation channel is closed only by the dispatcher, the generated channel
\* only after every generator worker has exited, the scored channel only
\* after every scorer worker has exited.
C36_ChannelDiscipline ==
  /\ [](NoSenderOnClosed /\ (generatedClosed => AllGeneratorsDone)
                         /\ (scoredClosed => AllScorersDone))
  /\ [][ClosedByItsCloser]_vars

\* a cancelled run whose three channels are closed while the scored channel
\* still holds a record
C36_Witness ==
  /\ cancelled
  /\ jobsClosed /\ generatedClosed /\ scoredClosed
  /\ Len(scoredKeyInfos) > 0
  /\ dispatcher.i < jobCount

(***************************************************************************)
(* C37                                                                     *)
(***************************************************************************)
RECURSIVE KeysOf(_)
\* the records handed to BatchCreate, call after call
KeysOf(calls) ==
  IF calls = <<>> THEN <<>> ELSE Head(calls).keys \o KeysOf(Tail(calls))

\* the batch the saver has not handed to BatchCreate yet (after the final
\* flush localBatch still holds the records it handed over)
Unflushed == IF saver.pc = "range" THEN saver.localBatch ELSE <<>>

\* the records sent on the scored channel, wherever they are by now: still
\* in the channel, in the saver's batch, or handed to BatchCreate
SentKeyInfos == scoredKeyInfos \o Unflushed \o KeysOf(batchCalls)

Occurrences(keys, key) == Cardinality({i \in DOMAIN keys : keys[i] = key})

\* a step loses no record that was sent and duplicates none
KeepsSentKeyInfos ==
  \A i \in DOMAIN SentKeyInfos : Occurrences(SentKeyInfos', SentKeyInfos[i]) = 1

\* the saver is gone and nothing that was sent is left behind
AllHandedOver ==
  /\ AllScorersDone
  /\ scoredKeyInfos = <<>>
  /\ \A i \in DOMAIN SentKeyInfos :
       Occurrences(KeysOf(batchCalls), SentKeyInfos[i]) = 1

\* every record that was sent is a committed row, once
AllCommitted ==
  \A i \in DOMAIN SentKeyInfos : Occurrences(persisted, SentKeyInfos[i]) = 1

\* a BatchCreate that returned an error or panicked
BatchCreateFailed == BatchFailed \/ BatchPanicked

TokensSent == dispatcher.i
EntitiesGenerated == SumOver(generated, Kinds)
\* entities a generator worker holds: not sent yet, or never sent because the
\* run was cancelled at the send
Unsent == Cardinality({g \in Generators : generators[g].entity /= NoEntity})
EntitiesSent == EntitiesGenerated - Unsent
EntitiesReceived == EntitiesSent - Len(generatedEntities)
\* records a scorer holds for sending, or whose serialization failed
AtScorers ==
  Cardinality({s \in Scorers : scorers[s].pc = "send"}) + Cardinality(Dropped)
KeyInfosSent == Len(SentKeyInfos)
KeyInfosHandedOver == Len(KeysOf(batchCalls))

\* records handed to BatchCreate <= records sent on the scored channel <=
\* entities received by scorers <= entities sent on the generated channel <=
\* tokens received by generators <= tokens sent by the dispatcher <= TotalKeys
CountsInOrder ==
  /\ 0 <= KeyInfosHandedOver
  /\ KeyInfosHandedOver <= KeyInfosSent
  /\ KeyInfosSent + AtScorers <= EntitiesReceived
  /\ EntitiesReceived <= EntitiesSent
  /\ EntitiesSent <= EntitiesGenerated
  /\ EntitiesGenerated <= TokensReceived
  /\ TokensReceived <= TokensSent
  /\ TokensSent <= TotalKeys

\* C38 as stated: at every moment of a run, cancelled or not, the counts are
\* in pipeline order, and the generated channel, whose capacity is TotalKeys,
\* is never full, so a generator's send never blocks.
C38_GeneratedNeverFull ==
  /\ CountsInOrder
  /\ generatedEntitiesCap = TotalKeys
  /\ Len(generatedEntities) < generatedEntitiesCap

\* C38, amended: at every moment of a run, cancelled or not, the counts are
\* in pipeline order, and the generated channel, whose capacity is TotalKeys,
\* has room whenever a generator has an entity to send, so a generator's send
\* never blocks; the channel is full when all TotalKeys entities are in it.
C38_GeneratorSendNeverBlocks ==
  /\ CountsInOrder
  /\ generatedEntitiesCap = TotalKeys
  /\ Len(generatedEntities) <= generatedEntitiesCap
  /\ \A g \in Generators :
       generators[g].pc = "send" => Len(generatedEntities) < generatedEntitiesCap

\* a generator is about to send the last entity while every other one is
\* still in the channel
C38_Witness ==
  /\ \E g \in Generators : generators[g].pc = "send"
  /\ Len(generatedEntities) = generatedEntitiesCap - 1
  /\ TokensSent = TotalKeys

(***************************************************************************)
(* C39                                                                     *)
(***************************************************************************)
\* the records a scorer worker has finished building: those it is about to
\* send, those in the scored channel, those in the saver's batch
BuiltPointers ==
  { keyInfoPool.workers[w].keyInfo :
      w \in {v \in PoolScorers : keyInfoPool.workers[v].pc = "send"} }
  \cup { keyInfoPool.output[i] : i \in 1..Len(keyInfoPool.output) }
  \cup { keyInfoPool.localBatch[i] : i \in 1..Len(keyInfoPool.localBatch) }

BuiltKeyInfos ==
  { keyInfoPool.heap[a] : a \in BuiltPointers }
  \cup { keyInfoPool.created[i] : i \in 1..Len(keyInfoPool.created) }

\* the candidates the scorer workers of the pool model were given
PoolEntities ==
  { e \in AllEntities : e.id \in 1..NumPoolEntities }

\* the record's total is the sum of its components, which are the scores of
\* the last sixteen characters of its own fingerprint (read from the table
\* of CalculateScores' results when the fingerprint is a candidate's)
OwnScores(k) ==
  LET known == {e \in PoolEntities : Fingerprint(e) = k.Fingerprint}
      scores == IF known /= {} THEN ScoresOf[CHOOSE e \in known : TRUE]
                ELSE CalculateScores(LastSixteen(k.Fingerprint))
  IN
    /\ k.Score = k.RepeatLetterScore + k.IncreasingLetterScore
                   + k.DecreasingLetterScore + k.MagicLetterScore
    /\ k.RepeatLetterScore = scores.RepeatLetterScore
    /\ k.IncreasingLetterScore = scores.IncreasingLetterScore
    /\ k.DecreasingLetterScore = scores.DecreasingLetterScore
    /\ k.MagicLetterScore = scores.MagicLetterScore
    /\ k.UniqueLettersCount = scores.UniqueLettersCount

\* the record's key material is that of the candidate whose fingerprint it
\* carries
OwnKeys(k) ==
  \E e \in PoolEntities :
    /\ k.Fingerprint = Fingerprint(e)
    /\ k.PublicKey = e.id
    /\ k.PrivateKey = e.id

\* a worker about to send holds the record of the candidate it received
SendsItsOwn ==
  \A w \in PoolScorers :
    keyInfoPool.workers[w].pc = "send" =>
      keyInfoPool.heap[keyInfoPool.workers[w].keyInfo].Fingerprint
        = Fingerprint(keyInfoPool.workers[w].entity)

\* C39: every KeyInfo built by a scorer worker has Score equal to the sum of
\* its four component scores, carries the component scores and the unique
\* count computed from the last 16 hex characters of its own fingerprint,
\* and the key material of the candidate with that fingerprint, whatever
\* the interleaving of the scorer workers that share the pool.
C39_NoMixedRecord ==
  /\ SendsItsOwn
  /\ \A k \in BuiltKeyInfos : OwnScores(k) /\ OwnKeys(k)

\* a worker is overwriting, field by field, an object another worker put
\* back, while the saver holds a record in its batch
C39_Witness ==
  /\ keyInfoPool.localBatch /= <<>>
  /\ \E w \in PoolScorers :
       /\ keyInfoPool.workers[w].pc = "fill"
       /\ keyInfoPool.workers[w].n > 1
       /\ keyInfoPool.heap[keyInfoPool.workers[w].keyInfo].PublicKey
            \notin {0, keyInfoPool.workers[w].entity.id}

(***************************************************************************)
(* C32, C33, C34, C40: the asynchronous log writer                         *)
(***************************************************************************)
\* C32: every message for which Write returned without error before Sync
\* was called has been delivered to the underlying writer by the time Sync
\* returns; no message still queued in the log channel is discarded at
\* shutdown.
C32_DeliveredBeforeSyncReturns ==
  \A s \in LogSyncers :
    aws.syncers[s].pc = "returned" => aws.syncers[s].before \subseteq Delivered

\* a Sync call is in progress: called, not yet returned
InSync(s) == aws.syncers[s].pc \in {"once", "closing", "wait"}

\* C33: Sync may be called any number of times, sequentially or
\* concurrently; the log channel and the close channel are each closed
\* exactly once, a call returns only after the background goroutine has
\* exited and the underlying writer has been synced, and every call returns
\* (unless a Write has panicked meanwhile and ended the program).
C33_EverySyncCallReturns ==
  /\ [](aws.closes <= 2)
  /\ [](\A s \in LogSyncers :
          aws.syncers[s].pc = "returned" => aws.run = "exited" /\ aws.synced)
  /\ \A s \in LogSyncers :
       InSync(s) ~> (aws.syncers[s].pc = "returned" \/ aws.panicked)

\* C34: the background log writer never blocks on its own state: when the
\* buffered data without a newline exceeds 4096 bytes it is force-flushed
\* and the goroutine keeps consuming the channel.
C34_RunNeverWaitsForItsOwnLock ==
  ~(aws.run = "flushBuffer" /\ aws.bufferMu = "writeData")

\* C40: a Write that happens after, or concurrently with, Sync never panics:
\* it either enqueues the data and returns len(p), or returns 0 with the
\* error "async writer is closed"; it never sends on the closed log channel.
C40_WriteNeverPanics ==
  \A w \in LogWriters : aws.writers[w].pc /= "panicked"

====
